---- MODULE Spec2Model ----
(***************************************************************************)
(* The tutorial notebooks as programs: a notebook is a sequence of code     *)
(* cells run top to bottom against one kernel; the kernel's variables are   *)
(* the state, and each code cell that changes the kernel is one action.     *)
(* Calls into xarray / dask are operators that compute what the call        *)
(* computes on small labelled arrays.                                       *)
(***************************************************************************)
EXTENDS Integers, Sequences, FiniteSets, TLC

VARIABLES
    nb,          \* which notebook this kernel runs
    pc,          \* the next code cell to run
    file,        \* the netCDF file the notebook opens
    ds,          \* `ds`
    var_ls, vx_ls, vy_ls, err_ls, yr_ls,            \* ice_velocity: name lists
    da_vx_ls, da_vy_ls, da_err_ls,                  \* ice_velocity: lists of DataArrays
    vx_concat, vy_concat, err_concat, ds_merge,     \* ice_velocity: results
    fig,         \* ice_velocity: the arrays handed to .plot(), in order
    env,         \* the process environment: is JUPYTERHUB_USER set
    config,      \* dask.config: is the dashboard link set
    client,      \* `client`: "none" before Client(), then "open", then "closed"
    closes,      \* how many times client.close() ran
    tasks,       \* the computations requested from dask, in order
    calls,       \* the calls made to the notebook's own functions, in order
    mean, timeseries, computed, sqer,               \* dask notebooks: results
    disk,        \* the file the notebook writes
    fromdisk,    \* `fromdisk`
    given,       \* 01-multiple-objects: the labels and sizes its literals spell out
    arr1, arr2, array1, array2,                     \* 01-multiple-objects: arrays
    array1_broadcasted, array2_broadcasted,
    a1_aligned, a2_aligned, arr1_aligned,
    da1, da2, result,
    OPTIONS,     \* xarray's global options (xr.set_options)
    old_options, \* the options a set_options object puts back on exit (its .old)
    numpy_result,                                   \* simple_numpy_apply_ufunc
    dlat, dlon, cell_area, cell_area_bad,           \* xarray_in_45_minutes: grid cells
    out          \* the value the last executed cell displayed

iceVars == <<var_ls, vx_ls, vy_ls, err_ls, yr_ls, da_vx_ls, da_vy_ls, da_err_ls,
             vx_concat, vy_concat, err_concat, ds_merge, fig>>

daskVars == <<env, config, client, closes, tasks, calls, mean, timeseries, computed, sqer>>

ioVars == <<disk, fromdisk>>

compVars == <<given, arr1, arr2, array1, array2, array1_broadcasted, array2_broadcasted,
              a1_aligned, a2_aligned, arr1_aligned, da1, da2, result, OPTIONS, old_options>>

areaVars == <<dlat, dlon, cell_area, cell_area_bad>>

laterVars == <<compVars, numpy_result, areaVars>>

vars == <<nb, pc, file, ds, iceVars, daskVars, ioVars, laterVars, out>>

-----------------------------------------------------------------------------
(* Bounds of the model. *)

\* how many years of data a file may hold
MaxYears == 3
\* sizes of the arrays of "Computing with Multiple Objects"
NSpace == 3
NTime == 4
\* grid size of the ice-velocity file
NY == 2
NX == 2
\* the longest time axis of the air_temperature file, and its grid size
\* (25 latitudes and 53 longitudes in the file: the two sizes differ)
MaxTime == 4
NLat == 2
NLon == 3
\* the notebooks' sizes, scaled to the small file: the chunk lengths
\* (the code has 25, 25 and 100), the rolling window (5) and the positions
\* picked by isel (lat=20, lon=1)
ChunkLat == 1
ChunkLon == 1
ChunkTime == 2
RollWindow == 2
IselLat == 1
IselLon == 1

-----------------------------------------------------------------------------
(* Values: numbers are integers; NaN is a value outside the data range.     *)

NaN == 0 - 1000000
PyNone == "None"
Unset == [kind |-> "unset"]

IsNaN(v) == v = NaN

\* IEEE arithmetic: NaN propagates.
Add(a, b) == IF IsNaN(a) \/ IsNaN(b) THEN NaN ELSE a + b
Square(a) == IF IsNaN(a) THEN NaN ELSE a * a

\* np.sqrt: the representable number nearest to the real square root.
Sqrt(s) ==
    IF IsNaN(s) \/ s < 0 THEN NaN
    ELSE CHOOSE r \in 0..s :
            /\ (r = 0 \/ (2 * r - 1) * (2 * r - 1) <= 4 * s)
            /\ 4 * s < (2 * r + 1) * (2 * r + 1)

\* a == b on numbers (False when either is NaN)
PyEq(a, b) == ~IsNaN(a) /\ ~IsNaN(b) /\ a = b
\* xarray's array_equiv on one element: equal, or both missing
ElemEquiv(a, b) == PyEq(a, b) \/ (IsNaN(a) /\ IsNaN(b))

-----------------------------------------------------------------------------
(* Sequences and index tuples. *)

Range(f) == {f[k] : k \in DOMAIN f}
SeqSet(s) == {s[k] : k \in 1..Len(s)}
RemoveAt(s, k) == SubSeq(s, 1, k - 1) \o SubSeq(s, k + 1, Len(s))
InsertAt(s, k, v) == SubSeq(s, 1, k - 1) \o <<v>> \o SubSeq(s, k, Len(s))
IndexOf(s, v) == CHOOSE k \in 1..Len(s) : s[k] = v
Has(s, v) == \E k \in 1..Len(s) : s[k] = v

RECURSIVE Idx(_)
\* all index tuples of an array of the given shape (1-based)
Idx(shape) ==
    IF shape = <<>> THEN {<<>>}
    ELSE {<<i>> \o r : i \in 1..Head(shape), r \in Idx(Tail(shape))}

RECURSIVE SumSeq(_)
SumSeq(s) == IF s = <<>> THEN 0 ELSE Head(s) + SumSeq(Tail(s))

-----------------------------------------------------------------------------
(* Labelled arrays.                                                         *)
(* A variable is [dims, shape, data, attrs, lazy, encoding]: data maps each *)
(* index tuple of the shape to a value, lazy says what backs the values,    *)
(* encoding how the file stored them. A DataArray adds a name and its       *)
(* coordinate variables. A Dataset is [order, coord_names, variables,       *)
(* attrs]: order is the insertion order of the variables' names.            *)

NoAttrs == <<>>

\* the backing of a variable: a numpy array in memory ...
Numpy == [kind |-> "numpy"]
\* ... or a dask array: chunk sizes per axis and the graph that computes it
Dask(chunks, graph) == [kind |-> "dask", chunks |-> chunks, graph |-> graph]

IsDask(v) == v.lazy.kind = "dask"

\* a numpy-backed variable
Var(dims, shape, data, attrs) ==
    [dims |-> dims, shape |-> shape, data |-> data, attrs |-> attrs,
     lazy |-> Numpy, encoding |-> NoAttrs]

\* a 1-D variable along dimension d holding the labels
IndexVar(d, labels) ==
    Var(<<d>>, <<Len(labels)>>, [i \in Idx(<<Len(labels)>>) |-> labels[i[1]]], NoAttrs)

\* the labels of a 1-D variable, as a sequence
Labels(v) == [k \in 1..v.shape[1] |-> v.data[<<k>>]]

AxisOf(dims, d) == IndexOf(dims, d)
SizeOf(v, d) == v.shape[AxisOf(v.dims, d)]

DataArray(name, v, coords) ==
    [name |-> name, dims |-> v.dims, shape |-> v.shape, data |-> v.data,
     attrs |-> v.attrs, lazy |-> v.lazy, encoding |-> v.encoding, coords |-> coords]

VarOf(da) ==
    [dims |-> da.dims, shape |-> da.shape, data |-> da.data, attrs |-> da.attrs,
     lazy |-> da.lazy, encoding |-> da.encoding]

\* Variable.equals: same dimensions, same shape, equivalent values
VarEquals(a, b) ==
    /\ a.dims = b.dims
    /\ a.shape = b.shape
    /\ \A i \in Idx(a.shape) : ElemEquiv(a.data[i], b.data[i])

\* DataArray.equals: values, dimensions and coordinates; not name or attrs
Equals(a, b) ==
    /\ VarEquals(VarOf(a), VarOf(b))
    /\ DOMAIN a.coords = DOMAIN b.coords
    /\ \A c \in DOMAIN a.coords : VarEquals(a.coords[c], b.coords[c])

\* DataArray.identical: equals, and also the name and the attributes
Identical(a, b) ==
    /\ Equals(a, b)
    /\ a.name = b.name
    /\ a.attrs = b.attrs
    /\ \A c \in DOMAIN a.coords : a.coords[c].attrs = b.coords[c].attrs

-----------------------------------------------------------------------------
(* Plain arrays (numpy): [shape, data], axes numbered from 1.                *)

\* the same function, held as a table of its values
Stored(f) == f @@ <<>>

Arr(shape, data) == [shape |-> shape, data |-> Stored(data)]
ArrOf(v) == Arr(v.shape, v.data)

\* the values along one axis through index i of the reduced array
Along(a, ax, i) == [k \in 1..a.shape[ax] |-> a.data[InsertAt(i, ax, k)]]

\* a quotient of two integers, as the nearest number below
Quot(s, n) == IF n = 0 \/ IsNaN(s) THEN NaN ELSE s \div n

\* the sum of a sequence of numbers; NaN if any is NaN
SumNumbers(xs) ==
    IF \E k \in 1..Len(xs) : IsNaN(xs[k]) THEN NaN ELSE SumSeq(xs)

\* np.mean of a sequence of numbers
MeanOf(xs) == Quot(SumNumbers(xs), Len(xs))

\* np.nanmean of a sequence of numbers: the missing ones are left out
NanMeanOf(xs) == MeanOf(SelectSeq(xs, LAMBDA x : ~IsNaN(x)))

\* a[..., k, ...] on the given axis
NpIsel(a, ax, k) ==
    LET shp == RemoveAt(a.shape, ax)
    IN  Arr(shp, [i \in Idx(shp) |-> a.data[InsertAt(i, ax, k)]])

\* a.mean(axis=ax)
NpMean(a, ax) ==
    LET shp == RemoveAt(a.shape, ax)
    IN  Arr(shp, [i \in Idx(shp) |-> MeanOf(Along(a, ax, i))])

\* np.nanmean(a, axis=ax)
NpNanMean(a, ax) ==
    LET shp == RemoveAt(a.shape, ax)
    IN  Arr(shp, [i \in Idx(shp) |-> NanMeanOf(Along(a, ax, i))])

\* the mean over a trailing window of w positions along ax; missing until
\* the window holds w values
NpRollingMean(a, ax, w) ==
    LET Win(i) == [j \in 1..w |-> a.data[[i EXCEPT ![ax] = i[ax] - w + j]]]
    IN  Arr(a.shape, [i \in Idx(a.shape) |->
            IF i[ax] < w \/ (\E j \in 1..w : IsNaN(Win(i)[j])) THEN NaN
            ELSE MeanOf(Win(i))])

\* np.transpose(a, perm): axis k of the result is axis perm[k] of a
NpTranspose(a, perm) ==
    LET shp == [k \in 1..Len(perm) |-> a.shape[perm[k]]]
        Back(i) == [m \in 1..Len(perm) |-> i[IndexOf(perm, m)]]
    IN  Arr(shp, [i \in Idx(shp) |-> a.data[Back(i)]])

\* np.concatenate(as, axis=ax)
NpConcat(as, ax) ==
    LET Off(k) == SumSeq([j \in 1..k |-> as[j].shape[ax]])
        shp == [as[1].shape EXCEPT ![ax] = Off(Len(as))]
        Blk(p) == CHOOSE k \in 1..Len(as) : Off(k - 1) < p /\ p <= Off(k)
    IN  Arr(shp, [i \in Idx(shp) |->
            as[Blk(i[ax])].data[[i EXCEPT ![ax] = i[ax] - Off(Blk(i[ax]) - 1)]]])

\* a[..., lo:hi, ...] on the given axis (positions lo+1 .. hi)
NpSlice(a, ax, lo, hi) ==
    LET shp == [a.shape EXCEPT ![ax] = hi - lo]
    IN  Arr(shp, [i \in Idx(shp) |-> a.data[[i EXCEPT ![ax] = i[ax] + lo]]])

\* the axis a negative or positive Python axis number names (1-based)
NormAxis(axis, ndim) == IF axis < 0 THEN ndim + axis + 1 ELSE axis + 1

\* the position a Python index names (1-based)
Pos(k) == k + 1

-----------------------------------------------------------------------------
(* Variables backed by numpy or by dask. An operation on a dask-backed      *)
(* variable adds a node to the graph and computes nothing.                  *)

\* a dask-backed variable: no values yet
LazyVar(dims, shape, attrs, chunks, graph) ==
    [dims |-> dims, shape |-> shape, data |-> <<>>, attrs |-> attrs,
     lazy |-> Dask(chunks, graph), encoding |-> NoAttrs]

\* Variable.isel(d=k): the slice at position k, without the axis
IselVar(v, d, k) ==
    LET ax == AxisOf(v.dims, d)
        shp == RemoveAt(v.shape, ax)
    IN  IF IsDask(v)
        THEN LazyVar(RemoveAt(v.dims, ax), shp, v.attrs, RemoveAt(v.lazy.chunks, ax),
                 [op |-> "isel", axis |-> ax, k |-> k, of |-> v.lazy.graph])
        ELSE Var(RemoveAt(v.dims, ax), shp, NpIsel(ArrOf(v), ax, k).data, v.attrs)

\* DataArray.isel(d=k, drop=drop): coordinates along d become scalars, or
\* are dropped
Isel(da, d, k, drop) ==
    LET kept == {c \in DOMAIN da.coords : ~drop \/ ~Has(da.coords[c].dims, d)}
    IN  DataArray(da.name, IselVar(VarOf(da), d, k),
            [c \in kept |-> IF Has(da.coords[c].dims, d)
                            THEN IselVar(da.coords[c], d, k)
                            ELSE da.coords[c]])

\* whether .sel(d=label) finds the label in the index of d
CanSel(da, d, label) ==
    /\ d \in DOMAIN da.coords
    /\ da.coords[d].dims = <<d>>
    /\ Has(Labels(da.coords[d]), label)

\* DataArray.sel(d=label, drop=drop): label lookup in the index of d
Sel(da, d, label, drop) ==
    Isel(da, d, IndexOf(Labels(da.coords[d]), label), drop)

\* expand_dims with the new axis put last instead of first
ExpandDimsLast(da, d) ==
    LET shp == da.shape \o <<1>>
    IN  DataArray(da.name,
            Var(da.dims \o <<d>>, shp,
                [i \in Idx(shp) |-> da.data[SubSeq(i, 1, Len(i) - 1)]], da.attrs),
            da.coords)

\* DataArray.expand_dims(d): a new axis of length 1 in front, no coordinate
ExpandDims(da, d) ==
    LET shp == <<1>> \o da.shape
    IN  DataArray(da.name,
            Var(<<d>> \o da.dims, shp, [i \in Idx(shp) |-> da.data[Tail(i)]], da.attrs),
            da.coords)

\* DataArray.assign_coords(d=labels)
AssignCoords(da, d, labels) ==
    [da EXCEPT !.coords = (d :> IndexVar(d, labels)) @@ da.coords]

\* DataArray.expand_dims(d=labels): a new axis in front with its coordinate
ExpandDimsLabels(da, d, labels) ==
    LET shp == <<Len(labels)>> \o da.shape
    IN  DataArray(da.name,
            Var(<<d>> \o da.dims, shp, [i \in Idx(shp) |-> da.data[Tail(i)]], da.attrs),
            (d :> IndexVar(d, labels)) @@ da.coords)

\* DataArray.rename(name)
RenameArray(da, name) == [da EXCEPT !.name = name]

\* the name of a result built from several arrays: theirs if they agree
ResultName(das) ==
    IF \A k \in 1..Len(das) : das[k].name = das[1].name THEN das[1].name ELSE PyNone

\* Variable.concat along an existing dimension d
ConcatVar(vs, d) ==
    LET ax == AxisOf(vs[1].dims, d)
        Off(k) == SumSeq([j \in 1..k |-> vs[j].shape[ax]])
        shp == [vs[1].shape EXCEPT ![ax] = Off(Len(vs))]
        Piece(j) == CHOOSE k \in 1..Len(vs) : Off(k - 1) < j /\ j <= Off(k)
    IN  Var(vs[1].dims, shp,
            [i \in Idx(shp) |->
                LET k == Piece(i[ax])
                IN  vs[k].data[[i EXCEPT ![ax] = i[ax] - Off(k - 1)]]],
            vs[1].attrs)

\* what xr.concat(das, dim=d) requires of its arguments
CanConcat(das, d) ==
    /\ Len(das) > 0
    /\ \A k \in 1..Len(das) :
        /\ Has(das[k].dims, d)
        /\ das[k].dims = das[1].dims
        /\ RemoveAt(das[k].shape, AxisOf(das[k].dims, d))
             = RemoveAt(das[1].shape, AxisOf(das[1].dims, d))
        /\ DOMAIN das[k].coords = DOMAIN das[1].coords
        /\ \A c \in DOMAIN das[k].coords :
              Has(das[k].coords[c].dims, d) \/ VarEquals(das[k].coords[c], das[1].coords[c])

\* xr.concat(das, dim=d): the arrays one after the other along d, and so
\* their coordinates along d; the other coordinates are the first array's
Concat(das, d) ==
    DataArray(ResultName(das),
        ConcatVar([k \in 1..Len(das) |-> VarOf(das[k])], d),
        [c \in DOMAIN das[1].coords |->
            IF Has(das[1].coords[c].dims, d)
            THEN ConcatVar([k \in 1..Len(das) |-> das[k].coords[c]], d)
            ELSE das[1].coords[c]])

RECURSIVE SortedSeq(_)
\* a set of numbers as an ascending sequence
SortedSeq(S) ==
    IF S = {} THEN <<>>
    ELSE LET m == CHOOSE x \in S : \A y \in S : x <= y
         IN  <<m>> \o SortedSeq(S \ {m})

\* the index labels of dimension d in da (<<>> when d has no index there)
IndexLabels(da, d) ==
    IF d \in DOMAIN da.coords /\ da.coords[d].dims = <<d>>
    THEN Labels(da.coords[d]) ELSE <<>>

\* da.reindex(d=labels): positions whose label da lacks are filled with NaN
Reindex(da, d, labels) ==
    LET old == IndexLabels(da, d)
        ax  == AxisOf(da.dims, d)
        shp == [da.shape EXCEPT ![ax] = Len(labels)]
    IN  DataArray(da.name,
            Var(da.dims, shp,
                [i \in Idx(shp) |->
                    IF Has(old, labels[i[ax]])
                    THEN da.data[[i EXCEPT ![ax] = IndexOf(old, labels[i[ax]])]]
                    ELSE NaN],
                da.attrs),
            (d :> IndexVar(d, labels)) @@ da.coords)

\* the outer join of the indexes of d over the arrays that have d: the
\* common index when they all agree, else the sorted union of the labels
OuterIndex(das, d) ==
    LET have == {k \in 1..Len(das) : Has(das[k].dims, d) /\ IndexLabels(das[k], d) # <<>>}
        k0 == CHOOSE k \in have : TRUE
    IN  IF \A k \in have : IndexLabels(das[k], d) = IndexLabels(das[k0], d)
        THEN IndexLabels(das[k0], d)
        ELSE SortedSeq(UNION {SeqSet(IndexLabels(das[k], d)) : k \in have})

RECURSIVE ReindexAll(_, _, _)
\* da reindexed to the joined index of each of the dimensions ds_
ReindexAll(da, das, ds_) ==
    IF ds_ = <<>> THEN da
    ELSE LET d == Head(ds_)
         IN  ReindexAll(
                IF Has(da.dims, d) /\ IndexLabels(da, d) # <<>>
                   /\ IndexLabels(da, d) # OuterIndex(das, d)
                THEN Reindex(da, d, OuterIndex(das, d)) ELSE da,
                das, Tail(ds_))

\* what xr.merge(das) requires: every array named, no name twice
CanMerge(das) ==
    /\ \A k \in 1..Len(das) : das[k].name # PyNone
    /\ \A j, k \in 1..Len(das) : das[j].name = das[k].name => j = k

RECURSIVE CoordOrder(_, _)
\* the coordinate names of the arrays in order of first appearance
CoordOrder(das, seen) ==
    IF das = <<>> THEN <<>>
    ELSE LET new == SelectSeq(Head(das).dims, LAMBDA c :
                        c \in DOMAIN Head(das).coords /\ c \notin seen)
         IN  new \o CoordOrder(Tail(das), seen \cup SeqSet(new))

\* xr.merge(das): a Dataset with one data variable per array, the arrays
\* aligned with an outer join on their indexes
Merge(das) ==
    LET al == [k \in 1..Len(das) |-> ReindexAll(das[k], das, das[k].dims)]
        cn == UNION {DOMAIN al[k].coords : k \in 1..Len(al)}
        corder == CoordOrder(al, {})
        CoordVar(c) == LET k == CHOOSE k \in 1..Len(al) : c \in DOMAIN al[k].coords
                       IN  al[k].coords[c]
        DataVar(n) == LET k == CHOOSE k \in 1..Len(al) : al[k].name = n
                      IN  VarOf(al[k])
        names == [k \in 1..Len(al) |-> al[k].name]
    IN  [order |-> corder \o names,
         coord_names |-> cn,
         variables |-> [n \in cn \cup SeqSet(names) |->
                            IF n \in cn THEN CoordVar(n) ELSE DataVar(n)],
         attrs |-> NoAttrs]

-----------------------------------------------------------------------------
(* Datasets. *)

\* list(ds): the names of the data variables, in order
DataVars(d) == SelectSeq(d.order, LAMBDA n : n \notin d.coord_names)

\* ds.dims: the names of all dimensions
DimNames(d) == UNION {SeqSet(d.variables[n].dims) : n \in DOMAIN d.variables}

\* ds[name] / ds.name: the variable with the coordinates that fit its dimensions
GetItem(d, name) ==
    DataArray(name, d.variables[name],
        [c \in {c \in d.coord_names :
                    SeqSet(d.variables[c].dims) \subseteq SeqSet(d.variables[name].dims)}
            |-> d.variables[c]])

\* ds.swap_dims(m): every dimension old becomes m[old]; a variable named
\* m[old] becomes the coordinate of the new dimension
CanSwapDims(d, m) ==
    \A old \in DOMAIN m :
        /\ old \in DimNames(d)
        /\ m[old] \in DOMAIN d.variables => d.variables[m[old]].dims = <<old>>

\* swap_dims that renames the dimensions but promotes no variable to a
\* coordinate
SwapDimsNoCoords(d, m) ==
    LET NewDims(dims) == [k \in 1..Len(dims) |->
                            IF dims[k] \in DOMAIN m THEN m[dims[k]] ELSE dims[k]]
    IN  [d EXCEPT
            !.variables = [n \in DOMAIN d.variables |->
                              [d.variables[n] EXCEPT !.dims = NewDims(@)]]]

SwapDims(d, m) ==
    LET NewDims(dims) == [k \in 1..Len(dims) |->
                            IF dims[k] \in DOMAIN m THEN m[dims[k]] ELSE dims[k]]
    IN  [d EXCEPT
            !.variables = [n \in DOMAIN d.variables |->
                              [d.variables[n] EXCEPT !.dims = NewDims(@)]],
            !.coord_names = @ \cup (Range(m) \cap DOMAIN d.variables)]

\* ds.rename(m): variables, coordinates and dimensions named old become m[old]
CanRename(d, m) ==
    /\ \A old \in DOMAIN m : old \in DOMAIN d.variables \/ old \in DimNames(d)
    /\ \A old \in DOMAIN m :
          m[old] \notin (DOMAIN d.variables \cup DimNames(d)) \ DOMAIN m

RenameDataset(d, m) ==
    LET RN(n) == IF n \in DOMAIN m THEN m[n] ELSE n
        Old(n) == CHOOSE o \in DOMAIN d.variables : RN(o) = n
    IN  [d EXCEPT
            !.order = [k \in 1..Len(d.order) |-> RN(d.order[k])],
            !.coord_names = {RN(c) : c \in d.coord_names},
            !.variables = [n \in {RN(o) : o \in DOMAIN d.variables} |->
                [d.variables[Old(n)] EXCEPT
                    !.dims = [k \in 1..Len(@) |-> RN(@[k])]]]]

\* what ds[name] = da requires: da's indexes are those of ds
CanSetItem(d, name, da) ==
    \A c \in DOMAIN da.coords :
        c \in d.coord_names => VarEquals(da.coords[c], d.variables[c])

\* ds[name] = da
SetItem(d, name, da) ==
    [d EXCEPT
        !.order = IF Has(@, name) THEN @ ELSE Append(@, name),
        !.variables = (name :> VarOf(da)) @@ @]

-----------------------------------------------------------------------------
(* Arithmetic on labelled arrays. *)

\* da ** 2: element by element; name and coordinates kept, attrs dropped
SquareArray(da) ==
    [da EXCEPT !.data = [i \in Idx(da.shape) |-> Square(da.data[i])],
               !.attrs = NoAttrs]

\* np.sqrt(da)
SqrtArray(da) ==
    [da EXCEPT !.data = [i \in Idx(da.shape) |-> Sqrt(da.data[i])],
               !.attrs = NoAttrs]

\* the labels of d that both arrays have, in a's order (an inner join)
InnerIndex(a, b, d) ==
    SelectSeq(IndexLabels(a, d), LAMBDA l : Has(IndexLabels(b, d), l))

RECURSIVE AlignInner(_, _, _)
\* a restricted, dimension by dimension, to the labels it shares with b
AlignInner(a, b, ds_) ==
    IF ds_ = <<>> THEN a
    ELSE LET d == Head(ds_)
         IN  AlignInner(
                IF Has(b.dims, d) /\ IndexLabels(a, d) # <<>> /\ IndexLabels(b, d) # <<>>
                   /\ IndexLabels(a, d) # IndexLabels(b, d)
                THEN Reindex(a, d, InnerIndex(a, b, d)) ELSE a,
                b, Tail(ds_))

\* a + b for arrays over the same dimensions: aligned on their labels,
\* then added where the labels agree
AddArrays(a, b) ==
    LET x == AlignInner(a, b, a.dims)
        y == AlignInner(b, a, b.dims)
        InY(i) == [k \in 1..Len(y.dims) |-> i[AxisOf(x.dims, y.dims[k])]]
    IN  DataArray(ResultName(<<a, b>>),
            Var(x.dims, x.shape,
                [i \in Idx(x.shape) |-> Add(x.data[i], y.data[InY(i)])], NoAttrs),
            x.coords @@ y.coords)

-----------------------------------------------------------------------------
(* Names: Python strings. *)

\* sub in s
Contains(sub, s) ==
    \E i \in 1..(Len(s) - Len(sub) + 1) : SubSeq(s, i, i + Len(sub) - 1) = sub

\* s[-4:]
Last4(s) == IF Len(s) <= 4 THEN s ELSE SubSeq(s, Len(s) - 3, Len(s))

Digits == <<"0", "1", "2", "3", "4", "5", "6", "7", "8", "9">>

IsDigit(c) == Has(Digits, c)

RECURSIVE ParseInt(_)
\* int(s) for a string of decimal digits
ParseInt(s) ==
    IF Len(s) = 0 THEN 0
    ELSE 10 * ParseInt(SubSeq(s, 1, Len(s) - 1))
            + (IndexOf(Digits, SubSeq(s, Len(s), Len(s))) - 1)

\* whether int(s) succeeds
CanParseInt(s) ==
    /\ Len(s) > 0
    /\ \A i \in 1..Len(s) : IsDigit(SubSeq(s, i, i))

RECURSIVE IntStr(_)
\* the decimal digits of a natural number
IntStr(n) ==
    IF n < 10 THEN Digits[n + 1]
    ELSE IntStr(n \div 10) \o Digits[(n % 10) + 1]

-----------------------------------------------------------------------------
(* data_cleaning/ice_velocity.ipynb                                         *)

Groups == <<"vx", "vy", "err">>

\* the years a file may cover: 1996, 2000, ...
YearOf(k) == 1996 + 4 * (k - 1)

\* the files the notebook may be given: 1996 and any of the later years
YearSets == {ys \in SUBSET {YearOf(k) : k \in 1..MaxYears} : YearOf(1) \in ys}

\* the shapes of data a variable of the file may hold
Seeds == {1, 2}

\* the value of a variable of the file at row y, column x
CellVal(seed, y, x) ==
    IF seed = 2 /\ y = 1 /\ x = 1 THEN NaN
    ELSE (seed + 1) * x - 2 * y

XLabel(i) == 450 * i
YLabel(j) == 0 - 450 * j

FileAttrs == ("Projection" :> "Polar Stereographic South")

\* the per-year variable names of a file, year by year
YearVarNames(yrs) ==
    [k \in 1..(3 * Len(yrs)) |->
        Groups[((k - 1) % 3) + 1] \o IntStr(yrs[((k - 1) \div 3) + 1])]

\* ASE_ice_velocity.nc: dimensions ny and nx without coordinates; data
\* variables xaxis, yaxis and vx, vy, err of each year
IceFile(ys, seed) ==
    LET names == YearVarNames(SortedSeq(ys))
    IN  [order |-> <<"xaxis", "yaxis">> \o names,
         coord_names |-> {},
         variables |->
            [n \in {"xaxis", "yaxis"} \cup SeqSet(names) |->
                IF n = "xaxis" THEN
                    IndexVar("nx", [i \in 1..NX |-> XLabel(i)])
                ELSE IF n = "yaxis" THEN
                    IndexVar("ny", [j \in 1..NY |-> YLabel(j)])
                ELSE Var(<<"ny", "nx">>, <<NY, NX>>,
                         [i \in Idx(<<NY, NX>>) |-> CellVal(seed[n], i[1], i[2])],
                         NoAttrs)],
         attrs |-> FileAttrs]

\* xarray's options when it is imported
DefaultOptions == [arithmetic_join |-> "inner"]

\* the variables no cell has assigned yet
NothingAssigned ==
    /\ arr1 = Unset /\ arr2 = Unset /\ array1 = Unset /\ array2 = Unset
    /\ array1_broadcasted = Unset /\ array2_broadcasted = Unset
    /\ a1_aligned = Unset /\ a2_aligned = Unset /\ arr1_aligned = Unset
    /\ da1 = Unset /\ da2 = Unset /\ result = Unset
    /\ OPTIONS = DefaultOptions /\ old_options = Unset
    /\ numpy_result = Unset
    /\ dlat = Unset /\ dlon = Unset /\ cell_area = Unset /\ cell_area_bad = Unset

InitIce ==
    /\ nb = "ice_velocity"
    /\ pc = "open"
    /\ \E ys \in YearSets :
         \E seed \in [SeqSet(YearVarNames(SortedSeq(ys))) -> Seeds] :
            file = IceFile(ys, seed)
    /\ ds = Unset
    /\ var_ls = <<>> /\ vx_ls = <<>> /\ vy_ls = <<>> /\ err_ls = <<>> /\ yr_ls = <<>>
    /\ da_vx_ls = <<>> /\ da_vy_ls = <<>> /\ da_err_ls = <<>>
    /\ vx_concat = Unset /\ vy_concat = Unset /\ err_concat = Unset
    /\ ds_merge = Unset
    /\ fig = <<>>
    /\ env = {} /\ config = {} /\ client = "none" /\ closes = 0
    /\ tasks = <<>> /\ calls = <<>>
    /\ mean = Unset /\ timeseries = Unset /\ computed = Unset /\ sqer = Unset
    /\ disk = Unset /\ fromdisk = Unset
    /\ given = Unset /\ NothingAssigned
    /\ out = [kind |-> "none"]

\* a cell that raises stops the run
Raise == pc' = "error"

\* ds = xr.tutorial.open_dataset('ASE_ice_velocity.nc')
OpenIceCell ==
    /\ nb = "ice_velocity" /\ pc = "open"
    /\ ds' = file
    /\ pc' = "swap_dims"
    /\ UNCHANGED <<nb, file, laterVars, daskVars, ioVars, iceVars, out>>

\* ds = ds.swap_dims({'ny': 'yaxis', 'nx': 'xaxis'})
SwapDimsCell ==
    /\ nb = "ice_velocity" /\ pc = "swap_dims"
    /\ LET m == ("ny" :> "yaxis") @@ ("nx" :> "xaxis")
       IN  IF CanSwapDims(ds, m)
           THEN ds' = SwapDims(ds, m) /\ pc' = "rename"
           ELSE Raise /\ UNCHANGED ds
    /\ UNCHANGED <<nb, file, laterVars, daskVars, ioVars, iceVars, out>>

\* ds = ds.rename({'xaxis': 'x', 'yaxis': 'y'})
RenameCell ==
    /\ nb = "ice_velocity" /\ pc = "rename"
    /\ LET m == ("xaxis" :> "x") @@ ("yaxis" :> "y")
       IN  IF CanRename(ds, m)
           THEN ds' = RenameDataset(ds, m) /\ pc' = "lists"
           ELSE Raise /\ UNCHANGED ds
    /\ UNCHANGED <<nb, file, laterVars, daskVars, ioVars, iceVars, out>>

\* var_ls = list(ds); vx_ls, vy_ls, err_ls by substring; yr_ls from vx_ls
ListsCell ==
    /\ nb = "ice_velocity" /\ pc = "lists"
    /\ LET vl == DataVars(ds)
           vx == SelectSeq(vl, LAMBDA v : Contains("vx", v))
           vy == SelectSeq(vl, LAMBDA v : Contains("vy", v))
           er == SelectSeq(vl, LAMBDA v : Contains("err", v))
       IN  IF \A k \in 1..Len(vx) : CanParseInt(Last4(vx[k]))
           THEN /\ var_ls' = vl /\ vx_ls' = vx /\ vy_ls' = vy /\ err_ls' = er
                /\ yr_ls' = [k \in 1..Len(vx) |-> ParseInt(Last4(vx[k]))]
                /\ pc' = "da_vx"
           ELSE Raise /\ UNCHANGED <<var_ls, vx_ls, vy_ls, err_ls, yr_ls>>
    /\ UNCHANGED <<nb, file, laterVars, daskVars, ioVars, ds, da_vx_ls, da_vy_ls, da_err_ls, vx_concat, vy_concat,
                   err_concat, ds_merge, fig, out>>

\* da_vx_ls = [ds[var] for var in vx_ls]
DaVxCell ==
    /\ nb = "ice_velocity" /\ pc = "da_vx"
    /\ da_vx_ls' = [k \in 1..Len(vx_ls) |-> GetItem(ds, vx_ls[k])]
    /\ pc' = "expand"
    /\ UNCHANGED <<nb, file, laterVars, daskVars, ioVars, ds, var_ls, vx_ls, vy_ls, err_ls, yr_ls, da_vy_ls, da_err_ls,
                   vx_concat, vy_concat, err_concat, ds_merge, fig, out>>

\* da_vx_ls = [da_vx_ls[var].expand_dims('time') for var in range(len(da_vx_ls))]
ExpandCell ==
    /\ nb = "ice_velocity" /\ pc = "expand"
    /\ da_vx_ls' = [k \in 1..Len(da_vx_ls) |-> ExpandDims(da_vx_ls[k], "time")]
    /\ pc' = "assign"
    /\ UNCHANGED <<nb, file, laterVars, daskVars, ioVars, ds, var_ls, vx_ls, vy_ls, err_ls, yr_ls, da_vy_ls, da_err_ls,
                   vx_concat, vy_concat, err_concat, ds_merge, fig, out>>

\* the assign_coords cell labelling each array with its place in the list
\* (time=[var]) instead of its year
AssignCoordsCellByPosition ==
    /\ nb = "ice_velocity" /\ pc = "assign"
    /\ da_vx_ls' = [k \in 1..Len(da_vx_ls) |->
                        AssignCoords(da_vx_ls[k], "time", <<k - 1>>)]
    /\ pc' = "rename_vx"
    /\ UNCHANGED <<nb, file, laterVars, daskVars, ioVars, ds, var_ls, vx_ls, vy_ls, err_ls, yr_ls, da_vy_ls, da_err_ls,
                   vx_concat, vy_concat, err_concat, ds_merge, fig, out>>

\* da_vx_ls = [da_vx_ls[var].assign_coords(time=[yr_ls[var]]) for var in ...]
AssignCoordsCell ==
    /\ nb = "ice_velocity" /\ pc = "assign"
    /\ da_vx_ls' = [k \in 1..Len(da_vx_ls) |->
                        AssignCoords(da_vx_ls[k], "time", <<yr_ls[k]>>)]
    /\ pc' = "rename_vx"
    /\ UNCHANGED <<nb, file, laterVars, daskVars, ioVars, ds, var_ls, vx_ls, vy_ls, err_ls, yr_ls, da_vy_ls, da_err_ls,
                   vx_concat, vy_concat, err_concat, ds_merge, fig, out>>

\* da_vx_ls = [da_vx_ls[var].rename('vx') for var in range(len(da_vx_ls))]
RenameVxCell ==
    /\ nb = "ice_velocity" /\ pc = "rename_vx"
    /\ da_vx_ls' = [k \in 1..Len(da_vx_ls) |-> RenameArray(da_vx_ls[k], "vx")]
    /\ pc' = "vy_err"
    /\ UNCHANGED <<nb, file, laterVars, daskVars, ioVars, ds, var_ls, vx_ls, vy_ls, err_ls, yr_ls, da_vy_ls, da_err_ls,
                   vx_concat, vy_concat, err_concat, ds_merge, fig, out>>

\* [ds[var].expand_dims(time=[int(var[-4:])]).rename(name) for var in ls]
GroupArrays(d, ls, name) ==
    [k \in 1..Len(ls) |->
        RenameArray(
            ExpandDimsLabels(GetItem(d, ls[k]), "time", <<ParseInt(Last4(ls[k]))>>),
            name)]

\* da_vy_ls = [...rename('vy') for var in vy_ls]; da_err_ls likewise
VyErrCell ==
    /\ nb = "ice_velocity" /\ pc = "vy_err"
    /\ IF \A k \in 1..Len(vy_ls) : CanParseInt(Last4(vy_ls[k]))
       THEN /\ da_vy_ls' = GroupArrays(ds, vy_ls, "vy")
            /\ IF \A k \in 1..Len(err_ls) : CanParseInt(Last4(err_ls[k]))
               THEN da_err_ls' = GroupArrays(ds, err_ls, "err") /\ pc' = "concat_merge"
               ELSE Raise /\ UNCHANGED da_err_ls
       ELSE Raise /\ UNCHANGED <<da_vy_ls, da_err_ls>>
    /\ UNCHANGED <<nb, file, laterVars, daskVars, ioVars, ds, var_ls, vx_ls, vy_ls, err_ls, yr_ls, da_vx_ls,
                   vx_concat, vy_concat, err_concat, ds_merge, fig, out>>

\* vx_concat = xr.concat(da_vx_ls, dim='time'), likewise vy and err;
\* ds_merge = xr.merge([vx_concat, vy_concat, err_concat])
ConcatMergeCell ==
    /\ nb = "ice_velocity" /\ pc = "concat_merge"
    /\ IF /\ CanConcat(da_vx_ls, "time") /\ CanConcat(da_vy_ls, "time")
          /\ CanConcat(da_err_ls, "time")
          /\ CanMerge(<<Concat(da_vx_ls, "time"), Concat(da_vy_ls, "time"),
                        Concat(da_err_ls, "time")>>)
       THEN /\ vx_concat' = Concat(da_vx_ls, "time")
            /\ vy_concat' = Concat(da_vy_ls, "time")
            /\ err_concat' = Concat(da_err_ls, "time")
            /\ ds_merge' = Merge(<<vx_concat', vy_concat', err_concat'>>)
            /\ pc' = "vv"
       ELSE Raise /\ UNCHANGED <<vx_concat, vy_concat, err_concat, ds_merge>>
    /\ UNCHANGED <<nb, file, laterVars, daskVars, ioVars, ds, var_ls, vx_ls, vy_ls, err_ls, yr_ls, da_vx_ls, da_vy_ls,
                   da_err_ls, fig, out>>

\* the magnitude with the second component left out of the sum
MagnitudeOfFirst(a, b) == SqrtArray(AddArrays(SquareArray(a), SquareArray(a)))

\* np.sqrt((a**2) + (b**2))
Magnitude(a, b) == SqrtArray(AddArrays(SquareArray(a), SquareArray(b)))

\* ds_merge['vv'] = np.sqrt((ds_merge.vx**2) + (ds_merge.vy**2))
VvCell ==
    /\ nb = "ice_velocity" /\ pc = "vv"
    /\ LET vv == Magnitude(GetItem(ds_merge, "vx"), GetItem(ds_merge, "vy"))
       IN  IF CanSetItem(ds_merge, "vv", vv)
           THEN ds_merge' = SetItem(ds_merge, "vv", vv) /\ pc' = "plot_vv"
           ELSE Raise /\ UNCHANGED ds_merge
    /\ UNCHANGED <<nb, file, laterVars, daskVars, ioVars, ds, var_ls, vx_ls, vy_ls, err_ls, yr_ls, da_vx_ls, da_vy_ls,
                   da_err_ls, vx_concat, vy_concat, err_concat, fig, out>>

\* ds_merge.vv.isel(time=0).plot(vmax=1000)
PlotVvCell ==
    /\ nb = "ice_velocity" /\ pc = "plot_vv"
    /\ fig' = Append(fig, Isel(GetItem(ds_merge, "vv"), "time", 1, FALSE))
    /\ pc' = "attrs"
    /\ UNCHANGED <<nb, file, laterVars, daskVars, ioVars, ds, var_ls, vx_ls, vy_ls, err_ls, yr_ls, da_vx_ls, da_vy_ls,
                   da_err_ls, vx_concat, vy_concat, err_concat, ds_merge, out>>

\* ds_merge.attrs = ds.attrs
AttrsCell ==
    /\ nb = "ice_velocity" /\ pc = "attrs"
    /\ ds_merge' = [ds_merge EXCEPT !.attrs = ds.attrs]
    /\ pc' = "plot_orig"
    /\ UNCHANGED <<nb, file, laterVars, daskVars, ioVars, ds, var_ls, vx_ls, vy_ls, err_ls, yr_ls, da_vx_ls, da_vy_ls,
                   da_err_ls, vx_concat, vy_concat, err_concat, fig, out>>

\* np.sqrt((ds.vx1996**2) + (ds.vy1996**2)).plot(vmax=1000)
PlotOrigCell ==
    /\ nb = "ice_velocity" /\ pc = "plot_orig"
    /\ IF {"vx1996", "vy1996"} \subseteq DOMAIN ds.variables
       THEN /\ fig' = Append(fig, Magnitude(GetItem(ds, "vx1996"), GetItem(ds, "vy1996")))
            /\ pc' = "equals"
       ELSE Raise /\ UNCHANGED fig
    /\ UNCHANGED <<nb, file, laterVars, daskVars, ioVars, ds, var_ls, vx_ls, vy_ls, err_ls, yr_ls, da_vx_ls, da_vy_ls,
                   da_err_ls, vx_concat, vy_concat, err_concat, ds_merge, out>>

\* what a cell displays: nothing, or the value of its last expression
NoOut == [kind |-> "none"]
PyBool(b) == [kind |-> "bool", val |-> b]
Shown(x) == [kind |-> "object", val |-> x]
IsTrue(o) == o.kind = "bool" /\ o.val

\* ds_merge['vx'].sel(time=1996, drop=True).equals(ds.vx1996)
EqualsCell ==
    /\ nb = "ice_velocity" /\ pc = "equals"
    /\ IF /\ "vx1996" \in DOMAIN ds.variables
          /\ CanSel(GetItem(ds_merge, "vx"), "time", 1996)
       THEN /\ out' = PyBool(Equals(Sel(GetItem(ds_merge, "vx"), "time", 1996, TRUE),
                                    GetItem(ds, "vx1996")))
            /\ pc' = "done"
       ELSE Raise /\ UNCHANGED out
    /\ UNCHANGED <<nb, file, laterVars, daskVars, ioVars, ds, iceVars>>

NextIce ==
    \/ OpenIceCell \/ SwapDimsCell \/ RenameCell \/ ListsCell \/ DaVxCell \/ ExpandCell
    \/ AssignCoordsCell \/ RenameVxCell \/ VyErrCell \/ ConcatMergeCell
    \/ VvCell \/ PlotVvCell \/ AttrsCell \/ PlotOrigCell \/ EqualsCell

SpecIce == InitIce /\ [][NextIce]_vars

-----------------------------------------------------------------------------
(* netCDF files: a file is a dataset of stored values; opening decodes them *)
(* (CF conventions), writing encodes them back.                             *)

HoursSince1800 == "hours since 1800-01-01"
\* 1800-01-01 in hours since 1970-01-01, the origin of datetime64
Epoch1800 == 0 - 1490184
\* what casting NaN to int16 gives
IntMin16 == 0 - 32768

Without(attrs, keys) == [k \in DOMAIN attrs \ keys |-> attrs[k]]
Only(attrs, keys) == [k \in DOMAIN attrs \cap keys |-> attrs[k]]
AttrOr(attrs, key, default) == IF key \in DOMAIN attrs THEN attrs[key] ELSE default

PackingKeys == {"scale_factor", "add_offset"}

IsTimeUnits(attrs) == "units" \in DOMAIN attrs /\ attrs["units"] = HoursSince1800

\* decoding one stored variable: stored * scale_factor + add_offset; hours
\* since the epoch become datetimes; the keys used move to .encoding
DecodeVar(v) ==
    LET moved == (DOMAIN v.attrs \cap PackingKeys)
                    \cup (IF IsTimeUnits(v.attrs) THEN {"units"} ELSE {})
        sc == AttrOr(v.attrs, "scale_factor", 1)
        off == AttrOr(v.attrs, "add_offset", 0)
        Dec(x) == IF IsNaN(x) THEN NaN
                  ELSE IF IsTimeUnits(v.attrs) THEN x + Epoch1800
                  ELSE x * sc + off
    IN  [v EXCEPT !.data = [i \in Idx(v.shape) |-> Dec(v.data[i])],
                  !.attrs = Without(v.attrs, moved),
                  !.encoding = Only(v.attrs, moved)]

\* encoding one variable the way its .encoding says
EncodeVar(v) ==
    LET sc == AttrOr(v.encoding, "scale_factor", 1)
        off == AttrOr(v.encoding, "add_offset", 0)
        packed == DOMAIN v.encoding \cap PackingKeys # {}
        Enc(x) == IF IsNaN(x) THEN (IF packed THEN IntMin16 ELSE NaN)
                  ELSE IF IsTimeUnits(v.encoding) THEN x - Epoch1800
                  ELSE (x - off) \div sc
    IN  [v EXCEPT !.data = [i \in Idx(v.shape) |-> Enc(v.data[i])],
                  !.attrs = v.encoding @@ v.attrs,
                  !.encoding = NoAttrs]

\* xr.open_dataset(path) / xr.tutorial.load_dataset(name): every variable
\* decoded, in memory
OpenDataset(f) ==
    [f EXCEPT !.variables = [n \in DOMAIN f.variables |-> DecodeVar(f.variables[n])]]

-----------------------------------------------------------------------------
(* Operations on variables, arrays and datasets that are lazy on dask.      *)

\* the chunk sizes of an axis of length n cut every c positions (-1: whole)
ChunkSizes(n, c) ==
    IF c = -1 \/ c >= n THEN <<n>>
    ELSE [k \in 1..((n + c - 1) \div c) |-> IF k * c <= n THEN c ELSE n - (k - 1) * c]

\* Variable.chunk(spec): the stored values become the leaf of a graph
ChunkVar(v, spec) ==
    LazyVar(v.dims, v.shape, v.attrs,
        [k \in 1..Len(v.dims) |-> ChunkSizes(v.shape[k], AttrOr(spec, v.dims[k], -1))],
        [op |-> "array", a |-> ArrOf(v)])

\* the index variables of a dataset: coordinates named like their dimension
IsIndex(d, n) == n \in d.coord_names /\ d.variables[n].dims = <<n>>

\* xr.open_dataset(path, chunks=spec): every variable but the indexes is a
\* dask array over the file
OpenChunked(f, spec) ==
    LET d == OpenDataset(f)
    IN  [d EXCEPT !.variables = [n \in DOMAIN d.variables |->
            IF IsIndex(d, n) THEN d.variables[n]
            ELSE [ChunkVar(d.variables[n], spec) EXCEPT
                     !.encoding = d.variables[n].encoding]]]

\* the array a graph computes (defined with the computing operators)
RECURSIVE Eval(_)

\* a mean that computes its operand when it is built
MeanVarEager(v, d) ==
    LET ax == AxisOf(v.dims, d)
        now == IF IsDask(v) THEN Eval(v.lazy.graph) ELSE ArrOf(v)
    IN  Var(RemoveAt(v.dims, ax), RemoveAt(v.shape, ax), NpNanMean(now, ax).data, NoAttrs)

\* Variable.mean(d): the mean over d, missing values left out; attrs dropped
MeanVar(v, d) ==
    LET ax == AxisOf(v.dims, d)
        shp == RemoveAt(v.shape, ax)
    IN  IF IsDask(v)
        THEN LazyVar(RemoveAt(v.dims, ax), shp, NoAttrs, RemoveAt(v.lazy.chunks, ax),
                 [op |-> "nanmean", axis |-> ax, of |-> v.lazy.graph])
        ELSE Var(RemoveAt(v.dims, ax), shp, NpNanMean(ArrOf(v), ax).data, NoAttrs)

\* the coordinates of a reduction over d: those that do not run along d
CoordsWithout(coords, d) ==
    [c \in {c \in DOMAIN coords : ~Has(coords[c].dims, d)} |-> coords[c]]

\* DataArray.mean(d)
Mean(da, d) == DataArray(da.name, MeanVar(VarOf(da), d), CoordsWithout(da.coords, d))

\* Dataset.mean(d): every data variable that has d is reduced; the
\* coordinates along d and the dataset's attrs are dropped
MeanDataset(d, dim) ==
    LET gone == {c \in d.coord_names : Has(d.variables[c].dims, dim)}
        keep == DOMAIN d.variables \ gone
    IN  [order |-> SelectSeq(d.order, LAMBDA n : n \in keep),
         coord_names |-> d.coord_names \ gone,
         variables |-> [n \in keep |->
             IF n \notin d.coord_names /\ Has(d.variables[n].dims, dim)
             THEN MeanVar(d.variables[n], dim)
             ELSE [d.variables[n] EXCEPT !.attrs =
                      IF n \in d.coord_names THEN @ ELSE NoAttrs]],
         attrs |-> NoAttrs]

\* whether .rolling(d=w) accepts the window
CanRoll(da, d, w) == Has(da.dims, d) /\ 0 < w /\ w <= SizeOf(da, d)

\* DataArray.rolling(d=w).mean(): the mean over the trailing window
RollingMean(da, d, w) ==
    LET ax == AxisOf(da.dims, d)
    IN  IF IsDask(da)
        THEN [da EXCEPT !.lazy = Dask(da.lazy.chunks,
                 [op |-> "rolling_mean", axis |-> ax, w |-> w, of |-> da.lazy.graph])]
        ELSE [da EXCEPT !.data = NpRollingMean(ArrOf(da), ax, w).data]

\* whether .isel(d=k) is inside the axis (k counts from 0)
CanIsel(da, d, k) == Has(da.dims, d) /\ 0 <= k /\ k < SizeOf(da, d)

-----------------------------------------------------------------------------
(* xr.apply_ufunc: the function is handed the bare array, core dimensions   *)
(* moved to the end, and its result is wrapped again.                       *)

\* (x - y) ** 2 element by element
NpSquaredError(a, y) ==
    Arr(a.shape, [i \in Idx(a.shape) |->
            IF IsNaN(a.data[i]) THEN NaN ELSE (a.data[i] - y) * (a.data[i] - y)])

\* scipy.integrate.trapz(a, axis=ax) with unit spacing
NpTrapz(a, ax) ==
    LET shp == RemoveAt(a.shape, ax)
        Pairs(xs) == [k \in 1..(Len(xs) - 1) |-> Add(xs[k], xs[k + 1])]
    IN  Arr(shp, [i \in Idx(shp) |-> Quot(SumNumbers(Pairs(Along(a, ax, i))), 2)])

\* the bare array of a variable: numpy values, or a dask array
Bare(v) == [shape |-> v.shape, data |-> v.data, lazy |-> v.lazy]

\* axes left where they are
CoreInPlace(dims, core) == [k \in 1..Len(dims) |-> k]

\* axes with the core dimensions moved to the end
CoreLast(dims, core) ==
    SelectSeq([k \in 1..Len(dims) |-> k], LAMBDA k : ~Has(core, dims[k]))
        \o [j \in 1..Len(core) |-> AxisOf(dims, core[j])]

\* x.transpose(perm) on a bare array
BareTranspose(x, perm) ==
    LET shp == [k \in 1..Len(perm) |-> x.shape[perm[k]]]
    IN  IF IsDask(x)
        THEN [shape |-> shp, data |-> <<>>,
              lazy |-> Dask([k \in 1..Len(perm) |-> x.lazy.chunks[perm[k]]],
                            [op |-> "transpose", perm |-> perm, of |-> x.lazy.graph])]
        ELSE [shape |-> shp, data |-> NpTranspose(Arr(x.shape, x.data), perm).data,
              lazy |-> Numpy]

\* squared_error(x, y) = (x - y) ** 2 on a bare array
squared_error(x, y) ==
    IF IsDask(x)
    THEN [x EXCEPT !.lazy = Dask(x.lazy.chunks,
             [op |-> "squared_error", y |-> y, of |-> x.lazy.graph])]
    ELSE [x EXCEPT !.data = NpSquaredError(Arr(x.shape, x.data), y).data]

\* dask.array.mean(x, axis=axis) on a bare array: a reduction node
DaskArrayMean(x, axis) ==
    LET ax == NormAxis(axis, Len(x.shape))
        shp == RemoveAt(x.shape, ax)
    IN  IF IsDask(x)
        THEN [shape |-> shp, data |-> <<>>,
              lazy |-> Dask(RemoveAt(x.lazy.chunks, ax),
                            [op |-> "mean", axis |-> ax, of |-> x.lazy.graph])]
        ELSE [shape |-> shp, data |-> NpMean(Arr(x.shape, x.data), ax).data,
              lazy |-> Numpy]

\* trapz(x, axis=axis) applied block by block when the graph is computed
\* (dask="parallelized"), or at once on numpy values
BlockwiseTrapz(x, axis) ==
    LET ax == NormAxis(axis, Len(x.shape))
        shp == RemoveAt(x.shape, ax)
    IN  IF IsDask(x)
        THEN [shape |-> shp, data |-> <<>>,
              lazy |-> Dask(RemoveAt(x.lazy.chunks, ax),
                            [op |-> "trapz", axis |-> ax, of |-> x.lazy.graph])]
        ELSE [shape |-> shp, data |-> NpTrapz(Arr(x.shape, x.data), ax).data,
              lazy |-> Numpy]

\* np.mean(x, axis=axis) on a bare numpy array
NumpyMean(x, axis) ==
    LET a == NpMean(Arr(x.shape, x.data), NormAxis(axis, Len(x.shape)))
    IN  [shape |-> a.shape, data |-> a.data, lazy |-> Numpy]

\* the call func(x, y, axis=axis) for the functions the notebooks pass
CallUfunc(func, x, y, axis) ==
    CASE func \in {"squared_error", "wrapper"} -> squared_error(x, y)
      [] func = "dask.array.mean" -> DaskArrayMean(x, axis)
      [] func \in {"np.mean", "mean_wrapper"} -> NumpyMean(x, axis)
      [] func = "trapz" -> BlockwiseTrapz(x, axis)

\* apply_ufunc refuses a dask array unless told what to do with it
UfuncAcceptsDask(v, mode) == IsDask(v) => mode \in {"allowed", "parallelized"}

\* the dimensions of the result: those that are not core, in order
BroadcastDims(dims, core) == SelectSeq(dims, LAMBDA d : ~Has(core, d))

\* apply_ufunc on one variable
ApplyUfuncVar(func, v, y, core, axis) ==
    LET res == CallUfunc(func, BareTranspose(Bare(v), CoreLast(v.dims, core)), y, axis)
    IN  [dims |-> BroadcastDims(v.dims, core), shape |-> res.shape, data |-> res.data,
         attrs |-> NoAttrs, lazy |-> res.lazy, encoding |-> NoAttrs]

\* the result must have one axis per result dimension
UfuncResultFits(func, v, y, core, axis) ==
    LET r == ApplyUfuncVar(func, v, y, core, axis)
    IN  Len(r.shape) = Len(r.dims)

\* a result that fits
NoFault == [why |-> "none"]

\* a check of sizes that finds nothing changed
NoSizesChanged(r, v) == {}

\* the axes of the result r whose size is not that of the input v's dimension
SizesChanged(r, v) == {k \in 1..Len(r.dims) : r.shape[k] # SizeOf(v, r.dims[k])}

\* what apply_ufunc finds wrong with the result r of the function on v: the
\* number of its axes first, then the size of each result dimension in turn
FaultIn(r, v) ==
    IF Len(r.shape) # Len(r.dims)
    THEN [why |-> "number of dimensions", received |-> Len(r.shape),
          expected |-> Len(r.dims), names |-> r.dims]
    ELSE IF SizesChanged(r, v) # {}
    THEN LET k == CHOOSE k \in SizesChanged(r, v) : \A j \in SizesChanged(r, v) : k <= j
         IN  [why |-> "size of dimension", dim |-> r.dims[k],
              from |-> SizeOf(v, r.dims[k]), to |-> r.shape[k]]
    ELSE NoFault

\* the function is called once, and its result is then checked
UfuncFault(func, v, y, core, axis) ==
    CHOOSE f \in {FaultIn(r, v) : r \in {ApplyUfuncVar(func, v, y, core, axis)}} : TRUE

\* the coordinates of the result: those without a core dimension
CoordsWithoutAll(coords, core) ==
    [c \in {c \in DOMAIN coords : \A k \in 1..Len(core) : ~Has(coords[c].dims, core[k])}
        |-> coords[c]]

\* xr.apply_ufunc(func, da, y, input_core_dims=[core], kwargs={"axis": axis})
ApplyUfunc(func, da, y, core, axis) ==
    DataArray(da.name, ApplyUfuncVar(func, VarOf(da), y, core, axis),
        CoordsWithoutAll(da.coords, core))

\* xr.apply_ufunc(func, ds, ...): the function applied to every data variable
ApplyUfuncDataset(func, d, y, core, axis) ==
    LET gone == {c \in d.coord_names :
                    \E k \in 1..Len(core) : Has(d.variables[c].dims, core[k])}
        keep == DOMAIN d.variables \ gone
    IN  [order |-> SelectSeq(d.order, LAMBDA n : n \in keep),
         coord_names |-> d.coord_names \ gone,
         variables |-> [n \in keep |->
             IF n \in d.coord_names THEN d.variables[n]
             ELSE ApplyUfuncVar(func, d.variables[n], y, core, axis)],
         attrs |-> NoAttrs]

-----------------------------------------------------------------------------
(* Computing: what a dask graph evaluates to, and Dataset.map_blocks.       *)

\* Variable.compute(): a new variable holding the values of the graph
ComputeVar(v) ==
    IF IsDask(v)
    THEN LET a == Eval(v.lazy.graph)
         IN  [v EXCEPT !.shape = a.shape, !.data = a.data, !.lazy = Numpy]
    ELSE v

\* DataArray.compute(): a new array, its data and coordinates in memory
Compute(da) ==
    DataArray(da.name, ComputeVar(VarOf(da)),
        [c \in DOMAIN da.coords |-> ComputeVar(da.coords[c])])

\* Dataset.compute()
ComputeDataset(d) ==
    [d EXCEPT !.variables =
        Stored([n \in DOMAIN d.variables |-> ComputeVar(d.variables[n])])]

\* whether any variable of the dataset is a dask array
DatasetIsDask(d) == \E n \in DOMAIN d.variables : IsDask(d.variables[n])

\* the elements of a finite set in some order
SeqOf(S) == CHOOSE s \in [1..Cardinality(S) -> S] : Range(s) = S

\* the length of a dimension of the dataset
DimSize(d, dim) ==
    LET n == CHOOSE n \in DOMAIN d.variables : Has(d.variables[n].dims, dim)
    IN  SizeOf(d.variables[n], dim)

\* Dataset.chunks: the chunk sizes of every dimension of a dask variable
ChunksOf(d) ==
    LET lazyv == {n \in DOMAIN d.variables : IsDask(d.variables[n])}
        dims == UNION {SeqSet(d.variables[n].dims) : n \in lazyv}
        Holder(dim) == CHOOSE n \in lazyv : Has(d.variables[n].dims, dim)
    IN  [dim \in dims |->
            d.variables[Holder(dim)].lazy.chunks[AxisOf(d.variables[Holder(dim)].dims, dim)]]

\* the object map_blocks shows the function first: every variable 0-shaped
Meta(d) ==
    [d EXCEPT !.variables = [n \in DOMAIN d.variables |->
        Var(d.variables[n].dims, [k \in 1..Len(d.variables[n].dims) |-> 0],
            <<>>, d.variables[n].attrs)]]

\* positions lo+1..hi of a dimension, in every variable that has it
SliceDataset(d, dim, lo, hi) ==
    [d EXCEPT !.variables = Stored([n \in DOMAIN d.variables |->
        IF Has(d.variables[n].dims, dim)
        THEN LET v == d.variables[n]
                 a == NpSlice(ArrOf(v), AxisOf(v.dims, dim), lo, hi)
             IN  [v EXCEPT !.shape = a.shape, !.data = a.data]
        ELSE d.variables[n]])]

\* putting the blocks together, keeping the first only
ConcatFirstOnly(parts, dim) == parts[1]

\* the results of the blocks put together along a dimension
ConcatDatasets(parts, dim) ==
    [parts[1] EXCEPT !.variables = Stored([n \in DOMAIN parts[1].variables |->
        IF Has(parts[1].variables[n].dims, dim)
        THEN LET v == parts[1].variables[n]
                 a == NpConcat(Stored([k \in 1..Len(parts) |-> ArrOf(parts[k].variables[n])]),
                               AxisOf(v.dims, dim))
             IN  [v EXCEPT !.shape = a.shape, !.data = a.data]
        ELSE parts[1].variables[n]])]

\* time_mean of the map_blocks notebook
time_mean_blocks(obj) == MeanDataset(obj, "lat")

\* the call func(obj) for the functions the notebooks pass to map_blocks
CallFn(func, obj) ==
    CASE func = "time_mean" -> time_mean_blocks(obj)

RECURSIVE MapOver(_, _, _, _)
\* the function applied to every block of obj, block after block along each
\* dimension of dims, and the results put together
MapOver(func, obj, dims, chunks) ==
    IF dims = <<>> THEN CallFn(func, obj)
    ELSE LET dim == Head(dims)
             sizes == chunks[dim]
             Off(k) == SumSeq(SubSeq(sizes, 1, k))
         IN  ConcatDatasets(
                 Stored([k \in 1..Len(sizes) |->
                     MapOver(func, SliceDataset(obj, dim, Off(k - 1), Off(k)),
                             Tail(dims), chunks)]),
                 dim)

RECURSIVE BlockSizes(_, _, _)
\* the sizes (dimension -> length) of the blocks, in the order MapOver
\* visits them
BlockSizes(sizes, dims, chunks) ==
    IF dims = <<>> THEN <<sizes>>
    ELSE LET dim == Head(dims)
             Sub(k) == BlockSizes([sizes EXCEPT ![dim] = chunks[dim][k]], Tail(dims), chunks)
             RECURSIVE Cat(_)
             Cat(k) == IF k = 0 THEN <<>> ELSE Cat(k - 1) \o Sub(k)
         IN  Cat(Len(chunks[dim]))

\* Dataset.map_blocks(func): func is called once on the 0-shaped object to
\* learn what it returns; the result's data are graph nodes
MapBlocks(func, d) ==
    LET t == CallFn(func, Meta(d))
        ch == ChunksOf(d)
    IN  [order |-> t.order, coord_names |-> t.coord_names, attrs |-> t.attrs,
         variables |-> [n \in DOMAIN t.variables |->
             IF IsIndex(t, n)
             THEN [d.variables[n] EXCEPT !.attrs = t.variables[n].attrs]
             ELSE LET dims == t.variables[n].dims
                  IN  LazyVar(dims, [k \in 1..Len(dims) |-> DimSize(d, dims[k])],
                          t.variables[n].attrs, [k \in 1..Len(dims) |-> ch[dims[k]]],
                          [op |-> "map_blocks", func |-> func, var |-> n, obj |-> d])]]

\* the array a graph computes
Eval(g) ==
    CASE g.op = "array" -> g.a
      [] g.op = "isel" -> NpIsel(Eval(g.of), g.axis, g.k)
      [] g.op = "nanmean" -> NpNanMean(Eval(g.of), g.axis)
      [] g.op = "mean" -> NpMean(Eval(g.of), g.axis)
      [] g.op = "rolling_mean" -> NpRollingMean(Eval(g.of), g.axis, g.w)
      [] g.op = "transpose" -> NpTranspose(Eval(g.of), g.perm)
      [] g.op = "squared_error" -> NpSquaredError(Eval(g.of), g.y)
      [] g.op = "trapz" -> NpTrapz(Eval(g.of), g.axis)
      [] g.op = "map_blocks" ->
            ArrOf(MapOver(g.func, ComputeDataset(g.obj), SeqOf(DOMAIN ChunksOf(g.obj)),
                          ChunksOf(g.obj)).variables[g.var])

-----------------------------------------------------------------------------
(* The air_temperature tutorial file.                                       *)

AirSeeds == {1, 2, 3}
TimeLens == RollWindow..MaxTime

\* the stored number at one grid point; the file has no missing values
AirRaw(seed, t, la, lo) == 120 + seed * t * t + 3 * la + 7 * lo

LatLabel(la) == 75 - 5 * (la - 1)
LonLabel(lo) == 200 + 5 * (lo - 1)
\* stored time: hours since 1800-01-01, every 6 hours from 2013-01-01
TimeRaw(t) == 1867128 + 6 * (t - 1)

AirAttrs(packed) ==
    IF packed
    THEN ("long_name" :> "4xDaily Air temperature at sigma level 995"
            @@ "units" :> "degK" @@ "scale_factor" :> 2 @@ "add_offset" :> 10)
    ELSE ("long_name" :> "4xDaily Air temperature at sigma level 995"
            @@ "units" :> "degK")

AirFile(nt, seed, packed) ==
    [order |-> <<"lat", "air", "lon", "time">>,
     coord_names |-> {"lat", "lon", "time"},
     variables |->
        ("lat" :> [IndexVar("lat", [la \in 1..NLat |-> LatLabel(la)])
                      EXCEPT !.attrs = ("units" :> "degrees_north")]
         @@ "lon" :> [IndexVar("lon", [lo \in 1..NLon |-> LonLabel(lo)])
                      EXCEPT !.attrs = ("units" :> "degrees_east")]
         @@ "time" :> [IndexVar("time", [t \in 1..nt |-> TimeRaw(t)])
                      EXCEPT !.attrs = ("units" :> HoursSince1800
                                            @@ "long_name" :> "Time")]
         @@ "air" :> Var(<<"time", "lat", "lon">>, <<nt, NLat, NLon>>,
                         [i \in Idx(<<nt, NLat, NLon>>) |-> AirRaw(seed, i[1], i[2], i[3])],
                         AirAttrs(packed))),
     attrs |-> ("Conventions" :> "COARDS" @@ "title" :> "4x daily NMC reanalysis (1948)")]

AirFiles == {AirFile(nt, seed, packed) : nt \in TimeLens, seed \in AirSeeds, packed \in BOOLEAN}

-----------------------------------------------------------------------------
(* The kernel of a notebook that talks to dask.                             *)

clientVars == <<config, client, closes>>
resultVars == <<mean, timeseries, computed, sqer>>

\* a computation handed to dask: what asked for it, and the client it found
Submit(what) == Append(tasks, [what |-> what, client |-> client])

\* obj.compute(): the caller's object is left alone; the result is new
ComputeMethod(obj) == [self |-> obj, result |-> Compute(obj)]

\* obj.load(): the caller's object itself gets the values, and is returned
LoadMethod(obj) == [self |-> Compute(obj), result |-> Compute(obj)]

\* the tasks a call that needs the values of obj sends
Request(what, obj) == IF IsDask(obj) THEN Submit(what) ELSE tasks

\* np.ones(shape)
Ones(shape) == Arr(shape, [i \in Idx(shape) |-> 1])

\* the notebooks that open a dask.distributed Client, and their first cell
ClientNotebooks == {"xarray_and_dask", "simple_dask_apply_ufunc", "map_blocks"}

FirstCell(n) == IF n = "xarray_and_dask" THEN "open" ELSE "client"

\* a kernel that has run nothing yet
FreshKernel ==
    /\ ds = Unset
    /\ var_ls = <<>> /\ vx_ls = <<>> /\ vy_ls = <<>> /\ err_ls = <<>> /\ yr_ls = <<>>
    /\ da_vx_ls = <<>> /\ da_vy_ls = <<>> /\ da_err_ls = <<>>
    /\ vx_concat = Unset /\ vy_concat = Unset /\ err_concat = Unset
    /\ ds_merge = Unset
    /\ fig = <<>>
    /\ config = {} /\ client = "none" /\ closes = 0
    /\ tasks = <<>> /\ calls = <<>>
    /\ mean = Unset /\ timeseries = Unset /\ computed = Unset /\ sqer = Unset
    /\ disk = Unset /\ fromdisk = Unset
    /\ NothingAssigned
    /\ out = NoOut

InitDask ==
    /\ nb \in ClientNotebooks
    /\ pc = FirstCell(nb)
    /\ file \in AirFiles
    /\ env \in SUBSET {"JUPYTERHUB_USER"}
    /\ given = Unset
    /\ FreshKernel

-----------------------------------------------------------------------------
(* intermediate/xarray_and_dask.ipynb                                       *)

\* ds = xr.tutorial.open_dataset("air_temperature", chunks={...}); ds.air
DaskOpenCell ==
    /\ nb = "xarray_and_dask" /\ pc = "open"
    /\ ds' = OpenChunked(file, ("lat" :> ChunkLat @@ "lon" :> ChunkLon @@ "time" :> (0 - 1)))
    /\ out' = Shown(GetItem(ds', "air"))
    /\ pc' = "chunks"
    /\ UNCHANGED <<nb, file, laterVars, iceVars, daskVars, ioVars>>

\* ds.air.chunks
ChunksCell ==
    /\ nb = "xarray_and_dask" /\ pc = "chunks"
    /\ out' = [kind |-> "chunks", val |-> GetItem(ds, "air").lazy.chunks]
    /\ pc' = "mean"
    /\ UNCHANGED <<nb, file, laterVars, ds, iceVars, daskVars, ioVars>>

\* mean = ds.air.mean("time")
MeanCell ==
    /\ nb = "xarray_and_dask" /\ pc = "mean"
    /\ mean' = Mean(GetItem(ds, "air"), "time")
    /\ out' = NoOut
    /\ pc' = "visualize"
    /\ UNCHANGED <<nb, file, laterVars, ds, iceVars, env, clientVars, tasks, calls,
                   timeseries, computed, sqer, ioVars>>

\* mean.data.visualize(optimize_graph=True): .data is the dask array; a
\* numpy array has no visualize
VisualizeCell ==
    /\ nb = "xarray_and_dask" /\ pc = "visualize"
    /\ IF IsDask(mean)
       THEN out' = [kind |-> "graph", val |-> mean.lazy.graph] /\ pc' = "client"
       ELSE Raise /\ UNCHANGED out
    /\ UNCHANGED <<nb, file, laterVars, ds, iceVars, daskVars, ioVars>>

\* if os.environ.get('JUPYTERHUB_USER'): dask.config.set(...)
\* client = Client(local_directory='/tmp')
DaskClientCell ==
    /\ nb = "xarray_and_dask" /\ pc = "client"
    /\ config' = IF "JUPYTERHUB_USER" \in env
                 THEN config \cup {"distributed.dashboard.link"} ELSE config
    /\ client' = "open"
    /\ out' = [kind |-> "client", val |-> client']
    /\ pc' = "ones"
    /\ UNCHANGED <<nb, file, laterVars, ds, iceVars, env, closes, tasks, calls, resultVars, ioVars>>

\* dask.array.ones((1000, 4), chunks=(2, 1)).compute()
DaskOnesCell ==
    /\ nb = "xarray_and_dask" /\ pc = "ones"
    /\ tasks' = Submit("compute")
    /\ out' = Shown(Ones(<<MaxTime, 4>>))
    /\ pc' = "isel"
    /\ UNCHANGED <<nb, file, laterVars, ds, iceVars, env, clientVars, calls, resultVars, ioVars>>

\* ds.air.isel(lon=1, lat=20)
IselCell ==
    /\ nb = "xarray_and_dask" /\ pc = "isel"
    /\ LET air == GetItem(ds, "air")
       IN  IF CanIsel(air, "lon", IselLon) /\ CanIsel(air, "lat", IselLat)
           THEN /\ out' = Shown(Isel(Isel(air, "lon", Pos(IselLon), FALSE),
                                     "lat", Pos(IselLat), FALSE))
                /\ pc' = "rolling_isel"
           ELSE Raise /\ UNCHANGED out
    /\ UNCHANGED <<nb, file, laterVars, ds, iceVars, daskVars, ioVars>>

\* timeseries = ds.air.rolling(time=5).mean().isel(lon=1, lat=20); timeseries
RollingIselCell ==
    /\ nb = "xarray_and_dask" /\ pc = "rolling_isel"
    /\ LET air == GetItem(ds, "air")
       IN  IF CanRoll(air, "time", RollWindow)
              /\ CanIsel(air, "lon", IselLon) /\ CanIsel(air, "lat", IselLat)
           THEN /\ timeseries' = Isel(Isel(RollingMean(air, "time", RollWindow),
                                           "lon", Pos(IselLon), FALSE),
                                      "lat", Pos(IselLat), FALSE)
                /\ out' = Shown(timeseries')
                /\ pc' = "rolling"
           ELSE Raise /\ UNCHANGED <<timeseries, out>>
    /\ UNCHANGED <<nb, file, laterVars, ds, iceVars, env, clientVars, tasks, calls,
                   mean, computed, sqer, ioVars>>

\* timeseries = ds.air.rolling(time=5).mean(); timeseries
RollingCell ==
    /\ nb = "xarray_and_dask" /\ pc = "rolling"
    /\ LET air == GetItem(ds, "air")
       IN  IF CanRoll(air, "time", RollWindow)
           THEN /\ timeseries' = RollingMean(air, "time", RollWindow)
                /\ out' = Shown(timeseries')
                /\ pc' = "compute"
           ELSE Raise /\ UNCHANGED <<timeseries, out>>
    /\ UNCHANGED <<nb, file, laterVars, ds, iceVars, env, clientVars, tasks, calls,
                   mean, computed, sqer, ioVars>>

\* computed = mean.compute(); computed
ComputeCell ==
    /\ nb = "xarray_and_dask" /\ pc = "compute"
    /\ tasks' = Request("compute", mean)
    /\ mean' = ComputeMethod(mean).self
    /\ computed' = ComputeMethod(mean).result
    /\ out' = Shown(computed')
    /\ pc' = "show_mean"
    /\ UNCHANGED <<nb, file, laterVars, ds, iceVars, env, clientVars, calls, timeseries, sqer, ioVars>>

\* mean
ShowMeanCell ==
    /\ nb = "xarray_and_dask" /\ pc = "show_mean"
    /\ out' = Shown(mean)
    /\ pc' = "load"
    /\ UNCHANGED <<nb, file, laterVars, ds, iceVars, daskVars, ioVars>>

\* mean.load()
LoadCell ==
    /\ nb = "xarray_and_dask" /\ pc = "load"
    /\ tasks' = Request("load", mean)
    /\ mean' = LoadMethod(mean).self
    /\ out' = Shown(LoadMethod(mean).result)
    /\ pc' = "show_loaded"
    /\ UNCHANGED <<nb, file, laterVars, ds, iceVars, env, clientVars, calls,
                   timeseries, computed, sqer, ioVars>>

\* mean
ShowLoadedCell ==
    /\ nb = "xarray_and_dask" /\ pc = "show_loaded"
    /\ out' = Shown(mean)
    /\ pc' = "close"
    /\ UNCHANGED <<nb, file, laterVars, ds, iceVars, daskVars, ioVars>>

\* client.close()
DaskCloseCell ==
    /\ nb = "xarray_and_dask" /\ pc = "close"
    /\ client' = "closed"
    /\ closes' = closes + 1
    /\ out' = NoOut
    /\ pc' = "done"
    /\ UNCHANGED <<nb, file, laterVars, ds, iceVars, env, config, tasks, calls, resultVars, ioVars>>

NextDaskIntro ==
    \/ DaskOpenCell \/ ChunksCell \/ MeanCell \/ VisualizeCell \/ DaskClientCell
    \/ DaskOnesCell \/ IselCell \/ RollingIselCell \/ RollingCell \/ ComputeCell
    \/ ShowMeanCell \/ LoadCell \/ ShowLoadedCell \/ DaskCloseCell

-----------------------------------------------------------------------------
(* advanced/apply_ufunc/simple_dask_apply_ufunc.ipynb: the apply_ufunc      *)
(* notebook and the map_blocks notebook start with the same three cells.    *)

UfuncNotebooks == {"simple_dask_apply_ufunc", "map_blocks"}

\* a call of one of the notebook's functions: what it was handed
Called(func, backing, shape) ==
    Append(calls, [func |-> func, backing |-> backing, shape |-> shape])

\* client = Client(); client
ClientCell ==
    /\ nb \in UfuncNotebooks /\ pc = "client"
    /\ client' = "open"
    /\ out' = [kind |-> "client", val |-> client']
    /\ pc' = "ones"
    /\ UNCHANGED <<nb, file, laterVars, ds, iceVars, env, config, closes, tasks, calls,
                   resultVars, ioVars>>

\* dask.array.ones((1000, 4), chunks=(2, 1)).compute()
OnesCell ==
    /\ nb \in UfuncNotebooks /\ pc = "ones"
    /\ tasks' = Submit("compute")
    /\ out' = Shown(Ones(<<MaxTime, 4>>))
    /\ pc' = "open"
    /\ UNCHANGED <<nb, file, laterVars, ds, iceVars, env, clientVars, calls, resultVars, ioVars>>

\* ds = xr.tutorial.open_dataset("air_temperature", chunks={"time": 100}); ds
OpenChunkedCell ==
    /\ nb \in UfuncNotebooks /\ pc = "open"
    /\ ds' = OpenChunked(file, ("time" :> ChunkTime))
    /\ out' = Shown(ds')
    /\ pc' = IF nb = "map_blocks" THEN "map_blocks" ELSE "forbidden"
    /\ UNCHANGED <<nb, file, laterVars, iceVars, daskVars, ioVars>>

\* xr.apply_ufunc(squared_error, ds.air, 1): the cell expects the error
ForbiddenCell ==
    /\ nb = "simple_dask_apply_ufunc" /\ pc = "forbidden"
    /\ LET air == GetItem(ds, "air")
       IN  IF UfuncAcceptsDask(air, "forbidden")
           THEN /\ out' = Shown(ApplyUfunc("squared_error", air, 1, <<>>, 0 - 1))
                /\ calls' = Called("squared_error", air.lazy.kind, air.shape)
           ELSE /\ out' = [kind |-> "error", val |-> "ValueError"]
                /\ calls' = calls
    /\ pc' = "sqer"
    /\ UNCHANGED <<nb, file, laterVars, ds, iceVars, env, clientVars, tasks, resultVars, ioVars>>

\* sqer = xr.apply_ufunc(squared_error, ds.air, 1, dask="allowed"); sqer
SqerCell ==
    /\ nb = "simple_dask_apply_ufunc" /\ pc = "sqer"
    /\ LET air == GetItem(ds, "air")
       IN  IF UfuncAcceptsDask(air, "allowed")
           THEN /\ sqer' = ApplyUfunc("squared_error", air, 1, <<>>, 0 - 1)
                /\ calls' = Called("squared_error", air.lazy.kind, air.shape)
                /\ out' = Shown(sqer')
                /\ pc' = "wrapper"
           ELSE Raise /\ UNCHANGED <<sqer, calls, out>>
    /\ UNCHANGED <<nb, file, laterVars, ds, iceVars, env, clientVars, tasks,
                   mean, timeseries, computed, ioVars>>

\* xr.apply_ufunc(wrapper, ds.air, 1, dask="allowed"): wrapper prints what
\* it received and calls squared_error
WrapperCell ==
    /\ nb = "simple_dask_apply_ufunc" /\ pc = "wrapper"
    /\ LET air == GetItem(ds, "air")
       IN  IF UfuncAcceptsDask(air, "allowed")
           THEN /\ out' = Shown(ApplyUfunc("wrapper", air, 1, <<>>, 0 - 1))
                /\ calls' = Called("wrapper", air.lazy.kind, air.shape)
                /\ pc' = "time_mean"
           ELSE Raise /\ UNCHANGED <<calls, out>>
    /\ UNCHANGED <<nb, file, laterVars, ds, iceVars, env, clientVars, tasks, resultVars, ioVars>>

\* time_mean with the reduction on the first axis instead of the last
time_mean_axis0(da) == ApplyUfunc("dask.array.mean", da, 0, <<"time">>, 0)

\* def time_mean(da): return xr.apply_ufunc(dask.array.mean, da,
\*     input_core_dims=[["time"]], dask="allowed", kwargs={"axis": -1})
time_mean(da) == ApplyUfunc("dask.array.mean", da, 0, <<"time">>, 0 - 1)

\* time_mean(ds.air)
TimeMeanCell ==
    /\ nb = "simple_dask_apply_ufunc" /\ pc = "time_mean"
    /\ LET air == GetItem(ds, "air")
       IN  IF UfuncAcceptsDask(air, "allowed")
              /\ UfuncResultFits("dask.array.mean", VarOf(air), 0, <<"time">>, 0 - 1)
           THEN /\ out' = Shown(time_mean(air))
                /\ calls' = Called("time_mean", air.lazy.kind, air.shape)
                /\ pc' = "identical"
           ELSE Raise /\ UNCHANGED <<calls, out>>
    /\ UNCHANGED <<nb, file, laterVars, ds, iceVars, env, clientVars, tasks, resultVars, ioVars>>

\* a.identical(b): the values of both are computed and compared
IdenticalArrays(a, b) == Identical(Compute(a), Compute(b))

\* ds.air.mean("time").identical(time_mean(ds.air))
IdenticalMeanCell ==
    /\ nb = "simple_dask_apply_ufunc" /\ pc = "identical"
    /\ LET air == GetItem(ds, "air")
       IN  /\ out' = PyBool(IdenticalArrays(Mean(air, "time"), time_mean(air)))
           /\ calls' = Called("time_mean", air.lazy.kind, air.shape)
           /\ tasks' = Request("identical", air)
    /\ pc' = "trapz"
    /\ UNCHANGED <<nb, file, laterVars, ds, iceVars, env, clientVars, resultVars, ioVars>>

\* sp.integrate.trapz(ds.air.data, axis=ds.air.get_axis_num("lon")): scipy
\* turns the dask array into numpy values
TrapzCell ==
    /\ nb = "simple_dask_apply_ufunc" /\ pc = "trapz"
    /\ LET air == GetItem(ds, "air")
       IN  /\ out' = Shown(NpTrapz(ArrOf(ComputeVar(VarOf(air))), AxisOf(air.dims, "lon")))
           /\ tasks' = Request("asarray", air)
    /\ pc' = "trapz_parallel"
    /\ UNCHANGED <<nb, file, laterVars, ds, iceVars, env, clientVars, calls, resultVars, ioVars>>

\* xr.apply_ufunc(sp.integrate.trapz, ds, input_core_dims=[["lon"]],
\*     kwargs={"axis": -1}, dask="parallelized")
TrapzParallelCell ==
    /\ nb = "simple_dask_apply_ufunc" /\ pc = "trapz_parallel"
    /\ out' = Shown(ApplyUfuncDataset("trapz", ds, 0, <<"lon">>, 0 - 1))
    /\ pc' = "close"
    /\ UNCHANGED <<nb, file, laterVars, ds, iceVars, daskVars, ioVars>>

\* client.close(), run before the comparison has been asked for
CloseEarly ==
    /\ client' = "closed"
    /\ closes' = closes + 1
    /\ pc' = IF nb = "map_blocks" THEN "identical_blocks" ELSE "identical"

\* client.close()
Close ==
    /\ client' = "closed"
    /\ closes' = closes + 1
    /\ pc' = "done"

CloseCell ==
    /\ nb \in UfuncNotebooks /\ pc = "close"
    /\ Close
    /\ out' = NoOut
    /\ UNCHANGED <<nb, file, laterVars, ds, iceVars, env, config, tasks, calls, resultVars, ioVars>>

NextApplyUfunc ==
    \/ ForbiddenCell \/ SqerCell \/ WrapperCell \/ TimeMeanCell
    \/ IdenticalMeanCell \/ TrapzCell \/ TrapzParallelCell

-----------------------------------------------------------------------------
(* The map_blocks notebook.                                                 *)

\* Dataset.identical on datasets in memory: attrs, names, and every
\* variable's dimensions, values and attrs
DatasetIdentical(a, b) ==
    /\ a.attrs = b.attrs
    /\ a.coord_names = b.coord_names
    /\ DOMAIN a.variables = DOMAIN b.variables
    /\ \A n \in DOMAIN a.variables :
          /\ VarEquals(a.variables[n], b.variables[n])
          /\ a.variables[n].attrs = b.variables[n].attrs

\* a.identical(b) on datasets: the values of both are computed and compared
IdenticalDatasets(a, b) == DatasetIdentical(ComputeDataset(a), ComputeDataset(b))

\* the shape of variable n in an object whose dimensions have these sizes
ShapeIn(d, n, sizes) ==
    [k \in 1..Len(d.variables[n].dims) |-> sizes[d.variables[n].dims[k]]]

\* the call map_blocks makes when it is built: the 0-shaped object
TemplateCall(func, d) ==
    <<[func |-> func, backing |-> "numpy", shape |-> Meta(d).variables["air"].shape]>>

\* the calls made when the result is computed: one per block, on values
BlockCalls(func, d) ==
    LET ch == ChunksOf(d)
        full == [dim \in DOMAIN ch |-> DimSize(d, dim)]
        blocks == BlockSizes(full, SeqOf(DOMAIN ch), ch)
    IN  [k \in 1..Len(blocks) |->
            [func |-> func, backing |-> "numpy", shape |-> ShapeIn(d, "air", blocks[k])]]

\* ds.map_blocks(time_mean)  # this is lazy!
MapBlocksCell ==
    /\ nb = "map_blocks" /\ pc = "map_blocks"
    /\ out' = Shown(MapBlocks("time_mean", ds))
    /\ calls' = calls \o TemplateCall("time_mean", ds)
    /\ pc' = "identical_blocks"
    /\ UNCHANGED <<nb, file, laterVars, ds, iceVars, env, clientVars, tasks, resultVars, ioVars>>

\* ds.map_blocks(time_mean).identical(ds.mean("lat"))
IdenticalBlocksCell ==
    /\ nb = "map_blocks" /\ pc = "identical_blocks"
    /\ out' = PyBool(IdenticalDatasets(MapBlocks("time_mean", ds), MeanDataset(ds, "lat")))
    /\ calls' = calls \o TemplateCall("time_mean", ds) \o BlockCalls("time_mean", ds)
    /\ tasks' = IF DatasetIsDask(ds) THEN Submit("identical") ELSE tasks
    /\ pc' = "close"
    /\ UNCHANGED <<nb, file, laterVars, ds, iceVars, env, clientVars, resultVars, ioVars>>

NextMapBlocks == MapBlocksCell \/ IdenticalBlocksCell

NextDask ==
    \/ NextDaskIntro
    \/ ClientCell \/ OnesCell \/ OpenChunkedCell \/ CloseCell
    \/ NextApplyUfunc
    \/ NextMapBlocks

SpecDask == InitDask /\ [][NextDask]_vars

-----------------------------------------------------------------------------
(* Alignment and broadcasting of two labelled arrays.                       *)

\* the labels of "space" are letters, which pandas orders alphabetically
Alphabet == <<"a", "b", "c", "d", "e", "f">>

\* where pandas sorts a label of dimension d
SortKey(d, l) == IF d = "space" THEN IndexOf(Alphabet, l) ELSE l

RECURSIVE SortedLabels(_, _)
\* a set of labels of dimension d as an ascending sequence
SortedLabels(d, S) ==
    IF S = {} THEN <<>>
    ELSE LET m == CHOOSE x \in S : \A y \in S : SortKey(d, x) <= SortKey(d, y)
         IN  <<m>> \o SortedLabels(d, S \ {m})

\* da has an index along d
HasIndex(da, d) == d \in DOMAIN da.coords /\ da.coords[d].dims = <<d>>

\* da.reindex(d=labels, fill_value=fill)
ReindexWith(da, d, labels, fill) ==
    LET old == Labels(da.coords[d])
        ax  == AxisOf(da.dims, d)
        shp == [da.shape EXCEPT ![ax] = Len(labels)]
    IN  DataArray(da.name,
            Var(da.dims, shp,
                [i \in Idx(shp) |->
                    IF Has(old, labels[i[ax]])
                    THEN da.data[[i EXCEPT ![ax] = IndexOf(old, labels[i[ax]])]]
                    ELSE fill],
                da.attrs),
            (d :> IndexVar(d, labels)) @@ da.coords)

\* a join that keeps the first object's index whatever the second has
JoinLeft(join, la, lb, d) == la

\* the index xr.align gives dimension d from the indexes la of the first
\* object and lb of the second
JoinIndex(join, la, lb, d) ==
    IF la = lb THEN la
    ELSE CASE join = "inner" -> SelectSeq(la, LAMBDA l : Has(lb, l))
           [] join = "outer" -> SortedLabels(d, SeqSet(la) \cup SeqSet(lb))
           [] join = "left"  -> la
           [] join = "right" -> lb
           [] join = "exact" -> la

\* the dimensions both objects index
Indexed(a, b) == {d \in SeqSet(a.dims) \cap SeqSet(b.dims) : HasIndex(a, d) /\ HasIndex(b, d)}

\* join="exact" accepts only equal indexes; every other join accepts any
CanAlignAny(join, a, b) == TRUE

CanAlign(join, a, b) ==
    join = "exact" =>
        \A d \in Indexed(a, b) : Labels(a.coords[d]) = Labels(b.coords[d])

RECURSIVE AlignTo(_, _, _, _, _, _)
\* da (one of a, b) reindexed along each of the dimensions ds_ to the joined index
AlignTo(da, a, b, ds_, join, fill) ==
    IF ds_ = <<>> THEN da
    ELSE LET d == Head(ds_)
             joined == JoinIndex(join, Labels(a.coords[d]), Labels(b.coords[d]), d)
         IN  AlignTo(
                IF d \in Indexed(a, b) /\ Labels(da.coords[d]) # joined
                THEN ReindexWith(da, d, joined, fill) ELSE da,
                a, b, Tail(ds_), join, fill)

\* xr.align(a, b, join=join, fill_value=fill)
Align(join, a, b, fill) ==
    <<AlignTo(a, a, b, a.dims, join, fill), AlignTo(b, a, b, b.dims, join, fill)>>

\* the dimensions of either, in order of first appearance
UnionDims(x, y) == x \o SelectSeq(y, LAMBDA d : ~Has(x, d))

\* the shape of x and y over the dimensions dims
UnionShape(x, y, dims) ==
    [k \in 1..Len(dims) |->
        IF Has(x.dims, dims[k]) THEN SizeOf(x, dims[k]) ELSE SizeOf(y, dims[k])]

\* the index into v of the element that index i over dims stands on
Part(v, dims, i) == [k \in 1..Len(v.dims) |-> i[IndexOf(dims, v.dims[k])]]

\* Variable.set_dims: v repeated along the dimensions it lacks
SetDims(v, dims, shape) ==
    Var(dims, shape, [i \in Idx(shape) |-> v.data[Part(v, dims, i)]], v.attrs)

\* the arrays handed back as they came
NoBroadcast(a, b) == <<a, b>>

\* xr.broadcast(a, b): aligned with an outer join, then each expanded to the
\* dimensions of both; names and attributes kept, coordinates shared
Broadcast(a, b) ==
    LET al == Align("outer", a, b, NaN)
        dims == UnionDims(al[1].dims, al[2].dims)
        shape == UnionShape(al[1], al[2], dims)
        coords == al[1].coords @@ al[2].coords
    IN  <<DataArray(a.name, SetDims(VarOf(al[1]), dims, shape), coords),
          DataArray(b.name, SetDims(VarOf(al[2]), dims, shape), coords)>>

\* one element of a binary operation; NaN propagates
Calc(op, u, v) ==
    IF IsNaN(u) \/ IsNaN(v) THEN NaN
    ELSE CASE op = "sub" -> u - v
           [] op = "mul" -> u * v
           [] op = "div" -> Quot(u, v)

\* a op b under the arithmetic join in force: the operands are aligned,
\* broadcast by dimension name, then combined element by element
BinaryOp(op, a, b, join) ==
    LET al == Align(join, a, b, NaN)
        x == al[1]
        y == al[2]
        dims == UnionDims(x.dims, y.dims)
        shape == UnionShape(x, y, dims)
    IN  DataArray(ResultName(<<a, b>>),
            Var(dims, shape,
                [i \in Idx(shape) |-> Calc(op, x.data[Part(x, dims, i)], y.data[Part(y, dims, i)])],
                NoAttrs),
            x.coords @@ y.coords)

\* numpy broadcasting: shapes are matched from the last axis backwards, and
\* two sizes go together when they are equal or one of them is 1
NpPad(s, n) == [k \in 1..(n - Len(s)) |-> 1] \o s

NpMax(m, n) == IF m < n THEN n ELSE m

NpCanBroadcast(s, t) ==
    LET n == NpMax(Len(s), Len(t))
    IN  \A k \in 1..n : NpPad(s, n)[k] = NpPad(t, n)[k]
                          \/ NpPad(s, n)[k] = 1 \/ NpPad(t, n)[k] = 1

\* a - b on numpy arrays whose shapes go together
NpSubtract(a, b) ==
    LET n == NpMax(Len(a.shape), Len(b.shape))
        s == NpPad(a.shape, n)
        t == NpPad(b.shape, n)
        shape == [k \in 1..n |-> NpMax(s[k], t[k])]
        In(u, i) == [k \in 1..Len(u) |-> IF u[k] = 1 THEN 1 ELSE i[n - Len(u) + k]]
    IN  Arr(shape, [i \in Idx(shape) |->
                Calc("sub", a.data[In(a.shape, i)], b.data[In(b.shape, i)])])

\* a[:, np.newaxis] and a[np.newaxis, :] for a 1-D array
NewAxisAfter(a) == Arr(a.shape \o <<1>>, [i \in Idx(a.shape \o <<1>>) |-> a.data[<<i[1]>>]])
NewAxisBefore(a) == Arr(<<1>> \o a.shape, [i \in Idx(<<1>> \o a.shape) |-> a.data[<<i[2]>>]])

-----------------------------------------------------------------------------
(* fundamentals: Computing with Multiple Objects                            *)
(* The cells that only plot (visualize_mesh, visualize_join) and the        *)
(* exercise on `array` change no variable used later and are left out.      *)

\* np.arange(n)
Arange(n) == Arr(<<n>>, [i \in Idx(<<n>>) |-> i[1] - 1])

\* np.arange(r * c).reshape(r, c)
ArangeReshaped(r, c) == Arr(<<r, c>>, [i \in Idx(<<r, c>>) |-> (i[1] - 1) * c + (i[2] - 1)])

\* ["a", "b", "c"] and [0, 1, 2, 3]
SpaceLabels == SubSeq(Alphabet, 1, NSpace)
TimeLabels == [k \in 1..NTime |-> k - 1]

\* a set of labels as the ascending subsequence of Alphabet
Letters(S) == SelectSeq(Alphabet, LAMBDA l : l \in S)

\* the space labels the second array may carry: ["b", "d"] in the notebook;
\* any two of the first NSpace + 1 letters, or any NSpace of them
SpaceChoices ==
    {Letters(S) : S \in {T \in SUBSET SeqSet(SubSeq(Alphabet, 1, NSpace + 1)) :
                            Cardinality(T) \in {2, NSpace}}}

\* the time labels the second array may carry: [-2 .. 4] in the notebook;
\* also the first array's own, and labels the first array has none of
TimeChoices ==
    {[k \in 1..(NTime + 3) |-> k - 3], TimeLabels, [k \in 1..2 |-> NTime + k - 1]}

\* xr.DataArray(data, dims=("space", "time"), coords={"space": sp, "time": tm}, name=name)
DataArray2D(a, sp, tm, name) ==
    DataArray(name, Var(<<"space", "time">>, a.shape, a.data, NoAttrs),
              ("space" :> IndexVar("space", sp)) @@ ("time" :> IndexVar("time", tm)))

\* xr.DataArray(data, dims=d, coords={d: labels}, name=name)
DataArray1D(a, d, labels, name) ==
    DataArray(name, Var(<<d>>, a.shape, a.data, NoAttrs), (d :> IndexVar(d, labels)))

\* the numpy array under a DataArray (.data)
DataOf(da) == Arr(da.shape, da.data)

InitCompute ==
    /\ nb = "computing_with_multiple_objects"
    /\ pc = "arr1"
    /\ file = Unset
    /\ env = {}
    /\ \E sp \in SpaceChoices, tm \in TimeChoices : given = [space |-> sp, time |-> tm]
    /\ FreshKernel

AtCell(cell) == nb = "computing_with_multiple_objects" /\ pc = cell

\* arr1 = xr.DataArray(np.arange(12).reshape(3, 4), ...); arr1
Arr1Cell ==
    /\ AtCell("arr1")
    /\ arr1' = DataArray2D(ArangeReshaped(NSpace, NTime), SpaceLabels, TimeLabels, PyNone)
    /\ out' = Shown(arr1')
    /\ pc' = "arr2"
    /\ UNCHANGED <<nb, file, ds, iceVars, daskVars, ioVars, numpy_result, areaVars>>
    /\ UNCHANGED <<given, arr2, array1, array2, array1_broadcasted, array2_broadcasted,
                   a1_aligned, a2_aligned, arr1_aligned, da1, da2, result, OPTIONS, old_options>>

\* arr2 = xr.DataArray([0, 1], dims="space", coords={"space": ["b", "d"]}); arr2
Arr2Cell ==
    /\ AtCell("arr2")
    /\ arr2' = DataArray1D(Arange(Len(given.space)), "space", given.space, PyNone)
    /\ out' = Shown(arr2')
    /\ pc' = "subtract"
    /\ UNCHANGED <<nb, file, ds, iceVars, daskVars, ioVars, numpy_result, areaVars>>
    /\ UNCHANGED <<given, arr1, array1, array2, array1_broadcasted, array2_broadcasted,
                   a1_aligned, a2_aligned, arr1_aligned, da1, da2, result, OPTIONS, old_options>>

\* arr1 - arr2
SubtractCell ==
    /\ AtCell("subtract")
    /\ out' = Shown(BinaryOp("sub", arr1, arr2, OPTIONS.arithmetic_join))
    /\ pc' = "arrays"
    /\ UNCHANGED <<nb, file, ds, iceVars, daskVars, ioVars, laterVars>>

\* array1 = xr.DataArray(np.arange(3), dims="space", ..., name="array1")
\* array2 = xr.DataArray(np.arange(4), dims="time", ..., name="array2")
ArraysCell ==
    /\ AtCell("arrays")
    /\ array1' = DataArray1D(Arange(NSpace), "space", SpaceLabels, "array1")
    /\ array2' = DataArray1D(Arange(NTime), "time", TimeLabels, "array2")
    /\ out' = Shown(array2')
    /\ pc' = "subtract_arrays"
    /\ UNCHANGED <<nb, file, ds, iceVars, daskVars, ioVars, numpy_result, areaVars>>
    /\ UNCHANGED <<given, arr1, arr2, array1_broadcasted, array2_broadcasted,
                   a1_aligned, a2_aligned, arr1_aligned, da1, da2, result, OPTIONS, old_options>>

\* array1 - array2
SubtractArraysCell ==
    /\ AtCell("subtract_arrays")
    /\ out' = Shown(BinaryOp("sub", array1, array2, OPTIONS.arithmetic_join))
    /\ pc' = "broadcast"
    /\ UNCHANGED <<nb, file, ds, iceVars, daskVars, ioVars, laterVars>>

\* array1_broadcasted, array2_broadcasted = xr.broadcast(array1, array2)
\* display(array1_broadcasted.dims); display(array2_broadcasted.dims)
BroadcastCell ==
    /\ AtCell("broadcast")
    /\ array1_broadcasted' = Broadcast(array1, array2)[1]
    /\ array2_broadcasted' = Broadcast(array1, array2)[2]
    /\ out' = Shown(array2_broadcasted'.dims)
    /\ pc' = "subtract_broadcasted"
    /\ UNCHANGED <<nb, file, ds, iceVars, daskVars, ioVars, numpy_result, areaVars>>
    /\ UNCHANGED <<given, arr1, arr2, array1, array2,
                   a1_aligned, a2_aligned, arr1_aligned, da1, da2, result, OPTIONS, old_options>>

\* array1_broadcasted - array2_broadcasted
SubtractBroadcastedCell ==
    /\ AtCell("subtract_broadcasted")
    /\ out' = Shown(BinaryOp("sub", array1_broadcasted, array2_broadcasted,
                             OPTIONS.arithmetic_join))
    /\ pc' = "numpy"
    /\ UNCHANGED <<nb, file, ds, iceVars, daskVars, ioVars, laterVars>>

\* array1.data - array2.data   (the cell is tagged raises-exception)
NumpySubtractCell ==
    /\ AtCell("numpy")
    /\ out' = IF NpCanBroadcast(array1.shape, array2.shape)
              THEN Shown(NpSubtract(DataOf(array1), DataOf(array2)))
              ELSE [kind |-> "error", val |-> "ValueError"]
    /\ pc' = "newaxis"
    /\ UNCHANGED <<nb, file, ds, iceVars, daskVars, ioVars, laterVars>>

\* array1.data[:, np.newaxis] - array2.data[np.newaxis, :]
NewAxisCell ==
    /\ AtCell("newaxis")
    /\ out' = Shown(NpSubtract(NewAxisAfter(DataOf(array1)), NewAxisBefore(DataOf(array2))))
    /\ pc' = "arr1_again"
    /\ UNCHANGED <<nb, file, ds, iceVars, daskVars, ioVars, laterVars>>

\* arr1 = xr.DataArray(np.arange(12).reshape(3, 4), ...); arr1
Arr1AgainCell ==
    /\ AtCell("arr1_again")
    /\ arr1' = DataArray2D(ArangeReshaped(NSpace, NTime), SpaceLabels, TimeLabels, PyNone)
    /\ out' = Shown(arr1')
    /\ pc' = "arr2_2d"
    /\ UNCHANGED <<nb, file, ds, iceVars, daskVars, ioVars, numpy_result, areaVars>>
    /\ UNCHANGED <<given, arr2, array1, array2, array1_broadcasted, array2_broadcasted,
                   a1_aligned, a2_aligned, arr1_aligned, da1, da2, result, OPTIONS, old_options>>

\* arr2 = xr.DataArray(np.arange(14).reshape(2, 7), dims=("space", "time"),
\*     coords={"space": ["b", "d"], "time": [-2, -1, 0, 1, 2, 3, 4]}); arr2
Arr2TwoDimCell ==
    /\ AtCell("arr2_2d")
    /\ arr2' = DataArray2D(ArangeReshaped(Len(given.space), Len(given.time)),
                           given.space, given.time, PyNone)
    /\ out' = Shown(arr2')
    /\ pc' = "align_inner"
    /\ UNCHANGED <<nb, file, ds, iceVars, daskVars, ioVars, numpy_result, areaVars>>
    /\ UNCHANGED <<given, arr1, array1, array2, array1_broadcasted, array2_broadcasted,
                   a1_aligned, a2_aligned, arr1_aligned, da1, da2, result, OPTIONS, old_options>>

\* a1_aligned, a2_aligned = xr.align(arr1, arr2, join="inner"); a1_aligned
AlignInnerCell ==
    /\ AtCell("align_inner")
    /\ a1_aligned' = Align("inner", arr1, arr2, NaN)[1]
    /\ a2_aligned' = Align("inner", arr1, arr2, NaN)[2]
    /\ out' = Shown(a1_aligned')
    /\ pc' = "show_a2"
    /\ UNCHANGED <<nb, file, ds, iceVars, daskVars, ioVars, numpy_result, areaVars>>
    /\ UNCHANGED <<given, arr1, arr2, array1, array2, array1_broadcasted,
                   array2_broadcasted, arr1_aligned, da1, da2, result, OPTIONS, old_options>>

\* a2_aligned
ShowA2Cell ==
    /\ AtCell("show_a2")
    /\ out' = Shown(a2_aligned)
    /\ pc' = "exercise"
    /\ UNCHANGED <<nb, file, ds, iceVars, daskVars, ioVars, laterVars>>

\* da1 = xr.DataArray(np.arange(12).reshape(3, 4), ...)
\* da2 = xr.DataArray([0, 1], dims="space", coords={"space": ["b", "d"]})
ExerciseCell ==
    /\ AtCell("exercise")
    /\ da1' = DataArray2D(ArangeReshaped(NSpace, NTime), SpaceLabels, TimeLabels, PyNone)
    /\ da2' = DataArray1D(Arange(Len(given.space)), "space", given.space, PyNone)
    /\ out' = NoOut
    /\ pc' = "align_outer"
    /\ UNCHANGED <<nb, file, ds, iceVars, daskVars, ioVars, numpy_result, areaVars>>
    /\ UNCHANGED <<given, arr1, arr2, array1, array2, array1_broadcasted,
                   array2_broadcasted, a1_aligned, a2_aligned, arr1_aligned, result,
                   OPTIONS, old_options>>

\* arr1_aligned, _ = xr.align(arr1, arr2, join="outer"); arr1_aligned
AlignOuterCell ==
    /\ AtCell("align_outer")
    /\ arr1_aligned' = Align("outer", arr1, arr2, NaN)[1]
    /\ out' = Shown(arr1_aligned')
    /\ pc' = "align_fill"
    /\ UNCHANGED <<nb, file, ds, iceVars, daskVars, ioVars, numpy_result, areaVars>>
    /\ UNCHANGED <<given, arr1, arr2, array1, array2, array1_broadcasted,
                   array2_broadcasted, a1_aligned, a2_aligned, da1, da2, result,
                   OPTIONS, old_options>>

\* arr1_aligned, _ = xr.align(arr1, arr2, join="outer", fill_value=0); arr1_aligned
AlignFillCell ==
    /\ AtCell("align_fill")
    /\ arr1_aligned' = Align("outer", arr1, arr2, 0)[1]
    /\ out' = Shown(arr1_aligned')
    /\ pc' = "align_exact"
    /\ UNCHANGED <<nb, file, ds, iceVars, daskVars, ioVars, numpy_result, areaVars>>
    /\ UNCHANGED <<given, arr1, arr2, array1, array2, array1_broadcasted,
                   array2_broadcasted, a1_aligned, a2_aligned, da1, da2, result,
                   OPTIONS, old_options>>

\* xr.align(arr1, arr2, join="exact")   (the cell is tagged raises-exception)
AlignExactCell ==
    /\ AtCell("align_exact")
    /\ out' = IF CanAlign("exact", arr1, arr2)
              THEN Shown(Align("exact", arr1, arr2, NaN))
              ELSE [kind |-> "error", val |-> "ValueError"]
    /\ pc' = "set_options"
    /\ UNCHANGED <<nb, file, ds, iceVars, daskVars, ioVars, laterVars>>

\* set_options.__exit__ that leaves the options as the block set them
KeepOptions(options, saved) == options

\* set_options.__exit__: the saved options are put back
RestoreOptions(options, saved) == saved @@ options

\* with xr.set_options(arithmetic_join="outer"):   the options object is
\* made: it saves the option's value and sets the new one
SetOptionsCell ==
    /\ AtCell("set_options")
    /\ old_options' = [arithmetic_join |-> OPTIONS.arithmetic_join]
    /\ OPTIONS' = [OPTIONS EXCEPT !.arithmetic_join = "outer"]
    /\ pc' = "with_body"
    /\ UNCHANGED <<nb, file, ds, iceVars, daskVars, ioVars, numpy_result, areaVars, out>>
    /\ UNCHANGED <<given, arr1, arr2, array1, array2, array1_broadcasted,
                   array2_broadcasted, a1_aligned, a2_aligned, arr1_aligned, da1, da2,
                   result>>

\*     result = arr1 - arr2
WithBody ==
    /\ AtCell("with_body")
    /\ result' = BinaryOp("sub", arr1, arr2, OPTIONS.arithmetic_join)
    /\ pc' = "with_exit"
    /\ UNCHANGED <<nb, file, ds, iceVars, daskVars, ioVars, numpy_result, areaVars, out>>
    /\ UNCHANGED <<given, arr1, arr2, array1, array2, array1_broadcasted,
                   array2_broadcasted, a1_aligned, a2_aligned, arr1_aligned, da1, da2,
                   OPTIONS, old_options>>

\* the block is left
WithExit ==
    /\ AtCell("with_exit")
    /\ OPTIONS' = RestoreOptions(OPTIONS, old_options)
    /\ pc' = "result"
    /\ UNCHANGED <<nb, file, ds, iceVars, daskVars, ioVars, numpy_result, areaVars, out>>
    /\ UNCHANGED <<given, arr1, arr2, array1, array2, array1_broadcasted,
                   array2_broadcasted, a1_aligned, a2_aligned, arr1_aligned, da1, da2,
                   result, old_options>>

\* result
ResultCell ==
    /\ AtCell("result")
    /\ out' = Shown(result)
    /\ pc' = "done"
    /\ UNCHANGED <<nb, file, ds, iceVars, daskVars, ioVars, laterVars>>

NextCompute ==
    \/ Arr1Cell \/ Arr2Cell \/ SubtractCell \/ ArraysCell \/ SubtractArraysCell
    \/ BroadcastCell \/ SubtractBroadcastedCell \/ NumpySubtractCell \/ NewAxisCell
    \/ Arr1AgainCell \/ Arr2TwoDimCell \/ AlignInnerCell \/ ShowA2Cell \/ ExerciseCell
    \/ AlignOuterCell \/ AlignFillCell \/ AlignExactCell
    \/ SetOptionsCell \/ WithBody \/ WithExit \/ ResultCell

SpecCompute == InitCompute /\ [][NextCompute]_vars

-----------------------------------------------------------------------------
(* Claims about ice_velocity.ipynb *)

\* the cells after which ds_merge holds the merged dataset
AfterMerge == {"vv", "plot_vv", "attrs", "plot_orig", "equals", "done"}
\* the cells after which ds_merge holds vv
AfterVv == AfterMerge \ {"vv"}
\* the years that appear in the names of the file's variables
FileYears ==
    {ParseInt(Last4(n)) : n \in {n \in DOMAIN file.variables : CanParseInt(Last4(n))}}

\* C1: for every year Y of the variable names and every group v in vx, vy,
\* err, selecting time=Y from ds_merge[v] with drop=True gives an array that
\* equals the per-year variable vY of ds; the notebook's own check displays
\* True.
C1_SelectYearEqualsOriginal ==
    (nb = "ice_velocity" /\ pc \in AfterMerge) =>
        /\ \A Y \in FileYears : \A g \in SeqSet(Groups) :
            /\ (g \o IntStr(Y)) \in DOMAIN ds.variables
            /\ CanSel(GetItem(ds_merge, g), "time", Y)
            /\ Equals(Sel(GetItem(ds_merge, g), "time", Y, TRUE),
                      GetItem(ds, g \o IntStr(Y)))
        /\ pc = "done" => IsTrue(out)

\* C1 happens: the check cell ran on a file of several years whose vx1996
\* has a missing value and differs from vx2000
C1_Witness ==
    /\ nb = "ice_velocity" /\ pc = "done" /\ IsTrue(out)
    /\ Len(yr_ls) >= 2
    /\ \E i \in Idx(<<NY, NX>>) : IsNaN(GetItem(ds, "vx1996").data[i])
    /\ ~Equals(GetItem(ds, "vx1996"), GetItem(ds, "vx2000"))

\* C2: right after the merge ds_merge has exactly the data variables vx, vy
\* and err, each over (time, y, x), and time is as long as there are years
\* in the names of the file's variables, a third of the per-year variables.
C2_MergedShape ==
    (nb = "ice_velocity" /\ pc \in AfterMerge) =>
        /\ pc = "vv" => /\ Len(DataVars(ds_merge)) = 3
                        /\ SeqSet(DataVars(ds_merge)) = {"vx", "vy", "err"}
        /\ {"vx", "vy", "err"} \subseteq SeqSet(DataVars(ds_merge))
        /\ \A g \in {"vx", "vy", "err"} :
            /\ ds_merge.variables[g].dims = <<"time", "y", "x">>
            /\ ds_merge.variables[g].shape = <<Cardinality(FileYears), NY, NX>>
        /\ 3 * Cardinality(FileYears) = Len(DataVars(ds))
        /\ DimNames(ds_merge) = {"time", "y", "x"}

\* C2 happens: the merge ran on a file with several years
C2_Witness ==
    /\ nb = "ice_velocity" /\ pc = "vv"
    /\ Cardinality(FileYears) = MaxYears
    /\ Len(DataVars(ds)) = 3 * MaxYears

\* C3: after swap_dims and rename the dataset has the dimensions x and y
\* with coordinates x and y holding the values of xaxis and yaxis; xaxis
\* and yaxis are no data variables, nx and ny are gone, and the data
\* variables are exactly the per-year variables of the file.
C3_SwapAndRename ==
    (nb = "ice_velocity" /\ pc \notin {"open", "swap_dims", "rename", "error"}) =>
        /\ DimNames(ds) = {"x", "y"}
        /\ ds.coord_names = {"x", "y"}
        /\ VarEquals(ds.variables["x"],
                     [file.variables["xaxis"] EXCEPT !.dims = <<"x">>])
        /\ VarEquals(ds.variables["y"],
                     [file.variables["yaxis"] EXCEPT !.dims = <<"y">>])
        /\ {"xaxis", "yaxis", "nx", "ny"} \cap (DOMAIN ds.variables \cup DimNames(ds)) = {}
        /\ DataVars(ds) = SelectSeq(file.order, LAMBDA n : n \notin {"xaxis", "yaxis"})
        /\ \A n \in SeqSet(DataVars(ds)) :
            /\ ds.variables[n].dims = <<"y", "x">>
            /\ ds.variables[n].data = file.variables[n].data

\* C3 happens: the rename cell has run on a file of several years
C3_Witness ==
    /\ nb = "ice_velocity" /\ pc = "lists"
    /\ Len(DataVars(ds)) = 3 * MaxYears
    /\ Len(DataVars(file)) = 3 * MaxYears + 2

\* r is the representable number nearest to the square root of s
NearestRoot(r, s) ==
    /\ r >= 0
    /\ (r = 0 \/ (2 * r - 1) * (2 * r - 1) <= 4 * s)
    /\ 4 * s < (2 * r + 1) * (2 * r + 1)

\* the first plotted array shows the same values on the same grid as the second
SamePlot(a, b) ==
    /\ VarEquals(VarOf(a), VarOf(b))
    /\ \A c \in {"x", "y"} : VarEquals(a.coords[c], b.coords[c])

-----------------------------------------------------------------------------
(* "Xarray in 45 minutes", the third notebook of                            *)
(* advanced/apply_ufunc/simple_dask_apply_ufunc.ipynb: the cells that read, *)
(* change, write and read back `ds`.                                        *)

\* ds.to_netcdf(path): every variable encoded the way its .encoding says
ToNetcdf(d) ==
    [d EXCEPT !.variables =
        [n \in DOMAIN d.variables |-> EncodeVar(ComputeVar(d.variables[n]))]]

\* an attribute set on a copy of the variable: the dataset does not see it
SetAttrOnCopy(d, name, key, val) == d

\* ds[name].attrs[key] = val: ds[name] wraps the dataset's own variable, so
\* the dataset's variable has the attribute afterwards
SetAttrViaItem(d, name, key, val) ==
    [d EXCEPT !.variables[name].attrs = (key :> val) @@ @]

\* ds = xr.tutorial.load_dataset("air_temperature"); ds
LoadDatasetCell ==
    /\ nb = "xarray_in_45_minutes" /\ pc = "load"
    /\ ds' = OpenDataset(file)
    /\ out' = Shown(ds')
    /\ pc' = "attrs"
    /\ UNCHANGED <<nb, file, laterVars, iceVars, daskVars, ioVars>>

\* ds.air.attrs["who_is_awesome"] = "xarray"; ds.air.attrs
AirAttrsCell ==
    /\ nb = "xarray_in_45_minutes" /\ pc = "attrs"
    /\ ds' = SetAttrViaItem(ds, "air", "who_is_awesome", "xarray")
    /\ out' = [kind |-> "attrs", val |-> GetItem(ds', "air").attrs]
    /\ pc' = "mean_time"
    /\ UNCHANGED <<nb, file, laterVars, iceVars, daskVars, ioVars>>

\* ds.air.mean("time")
ShowTimeMeanCell ==
    /\ nb = "xarray_in_45_minutes" /\ pc = "mean_time"
    /\ out' = Shown(Mean(GetItem(ds, "air"), "time"))
    /\ pc' = "isel"
    /\ UNCHANGED <<nb, file, laterVars, ds, iceVars, daskVars, ioVars>>

\* ds.air.isel(time=0, lat=0)
ShowIselCell ==
    /\ nb = "xarray_in_45_minutes" /\ pc = "isel"
    /\ out' = Shown(Isel(Isel(GetItem(ds, "air"), "time", Pos(0), FALSE),
                         "lat", Pos(0), FALSE))
    /\ pc' = "lengths"
    /\ UNCHANGED <<nb, file, laterVars, ds, iceVars, daskVars, ioVars>>

\* R * dϕ and R * dλ: the length of 2.5 degrees of a great circle, in km
CellKm == 278

\* 100 * cos(deg degrees), by Bhaskara's approximation
CosPercent(deg) == (100 * (32400 - 4 * deg * deg)) \div (32400 + deg * deg)

\* R * dϕ * xr.ones_like(da): the name and the coordinates of da are kept
LatLength(da) ==
    [da EXCEPT !.data = [i \in Idx(da.shape) |-> CellKm * 1], !.attrs = NoAttrs]

\* R * dλ * np.cos(np.deg2rad(da))
LonLength(da) ==
    [da EXCEPT !.data = [i \in Idx(da.shape) |-> (CellKm * CosPercent(da.data[i])) \div 100],
               !.attrs = NoAttrs]

\* 1e-5 degrees, in the unit of the model's labels: less than the grid spacing
Eps == 1

\* da[d] = da[d] + shift: the index of d is replaced
ShiftIndex(da, d, shift) ==
    [da EXCEPT !.coords = (d :> IndexVar(d, [k \in 1..SizeOf(da, d) |->
                                Labels(da.coords[d])[k] + shift])) @@ @]

\* dlat = R * dϕ * xr.ones_like(ds.air.lon)
\* dlon = R * dλ * np.cos(np.deg2rad(ds.air.lat))
LengthsCell ==
    /\ nb = "xarray_in_45_minutes" /\ pc = "lengths"
    /\ dlat' = LatLength(GetItem(ds, "lon"))
    /\ dlon' = LonLength(GetItem(ds, "lat"))
    /\ out' = NoOut
    /\ pc' = "cell_area"
    /\ UNCHANGED <<nb, file, ds, iceVars, daskVars, ioVars, compVars, numpy_result,
                   cell_area, cell_area_bad>>

\* cell_area = dlon * dlat; cell_area
CellAreaCell ==
    /\ nb = "xarray_in_45_minutes" /\ pc = "cell_area"
    /\ cell_area' = BinaryOp("mul", dlon, dlat, OPTIONS.arithmetic_join)
    /\ out' = Shown(cell_area')
    /\ pc' = "divide"
    /\ UNCHANGED <<nb, file, ds, iceVars, daskVars, ioVars, compVars, numpy_result,
                   dlat, dlon, cell_area_bad>>

\* ds.air.isel(time=1) / cell_area
DivideCell ==
    /\ nb = "xarray_in_45_minutes" /\ pc = "divide"
    /\ out' = Shown(BinaryOp("div", Isel(GetItem(ds, "air"), "time", Pos(1), FALSE),
                             cell_area, OPTIONS.arithmetic_join))
    /\ pc' = "cell_area_bad"
    /\ UNCHANGED <<nb, file, ds, iceVars, daskVars, ioVars, laterVars>>

\* cell_area_bad = cell_area.copy(deep=True)
\* cell_area_bad["lat"] = cell_area.lat + 1e-5; cell_area_bad
CellAreaBadCell ==
    /\ nb = "xarray_in_45_minutes" /\ pc = "cell_area_bad"
    /\ cell_area_bad' = ShiftIndex(cell_area, "lat", Eps)
    /\ out' = Shown(cell_area_bad')
    /\ pc' = "multiply"
    /\ UNCHANGED <<nb, file, ds, iceVars, daskVars, ioVars, compVars, numpy_result,
                   dlat, dlon, cell_area>>

\* cell_area_bad * ds.air.isel(time=1)
MultiplyCell ==
    /\ nb = "xarray_in_45_minutes" /\ pc = "multiply"
    /\ out' = Shown(BinaryOp("mul", cell_area_bad,
                             Isel(GetItem(ds, "air"), "time", Pos(1), FALSE),
                             OPTIONS.arithmetic_join))
    /\ pc' = "show_ds"
    /\ UNCHANGED <<nb, file, ds, iceVars, daskVars, ioVars, laterVars>>

\* ds
ShowDatasetCell ==
    /\ nb = "xarray_in_45_minutes" /\ pc = "show_ds"
    /\ out' = Shown(ds)
    /\ pc' = "to_netcdf"
    /\ UNCHANGED <<nb, file, laterVars, ds, iceVars, daskVars, ioVars>>

\* ds.to_netcdf("my-example-dataset.nc")
ToNetcdfCell ==
    /\ nb = "xarray_in_45_minutes" /\ pc = "to_netcdf"
    /\ disk' = ToNetcdf(ds)
    /\ out' = NoOut
    /\ pc' = "open_dataset"
    /\ UNCHANGED <<nb, file, laterVars, ds, iceVars, daskVars, fromdisk>>

\* fromdisk = xr.open_dataset("my-example-dataset.nc"); fromdisk
OpenDatasetCell ==
    /\ nb = "xarray_in_45_minutes" /\ pc = "open_dataset"
    /\ fromdisk' = OpenDataset(disk)
    /\ out' = Shown(fromdisk')
    /\ pc' = "identical"
    /\ UNCHANGED <<nb, file, laterVars, ds, iceVars, daskVars, disk>>

\* ds.identical(fromdisk)
IdenticalCell ==
    /\ nb = "xarray_in_45_minutes" /\ pc = "identical"
    /\ out' = PyBool(IdenticalDatasets(ds, fromdisk))
    /\ pc' = "done"
    /\ UNCHANGED <<nb, file, laterVars, ds, iceVars, daskVars, ioVars>>

InitIO ==
    /\ nb = "xarray_in_45_minutes"
    /\ pc = "load"
    /\ file \in AirFiles
    /\ env = {}
    /\ given = Unset
    /\ FreshKernel

NextIO ==
    \/ LoadDatasetCell \/ AirAttrsCell \/ ShowTimeMeanCell \/ ShowIselCell
    \/ LengthsCell \/ CellAreaCell \/ DivideCell \/ CellAreaBadCell \/ MultiplyCell
    \/ ShowDatasetCell \/ ToNetcdfCell \/ OpenDatasetCell \/ IdenticalCell

SpecIO == InitIO /\ [][NextIO]_vars

-----------------------------------------------------------------------------
(* advanced/apply_ufunc/simple_numpy_apply_ufunc.ipynb                      *)

InitNumpyUfunc ==
    /\ nb = "simple_numpy_apply_ufunc"
    /\ pc = "load"
    /\ file \in AirFiles
    /\ env = {}
    /\ given = Unset
    /\ FreshKernel

AtUfuncCell(cell) == nb = "simple_numpy_apply_ufunc" /\ pc = cell

\* what the notebook's wrapper prints: the array it received, its keyword
\* arguments, and the shape of what it returns
Received(func, v, y, core, axis) ==
    LET x == BareTranspose(Bare(v), CoreLast(v.dims, core))
    IN  [func |-> func, received |-> Arr(x.shape, x.data), axis |-> axis,
         result_shape |-> CallUfunc(func, x, y, axis).shape]

\* the calls apply_ufunc(func, d, ...) makes: one per data variable
ReceivedAll(func, d, y, core, axis) ==
    [k \in 1..Len(DataVars(d)) |-> Received(func, d.variables[DataVars(d)[k]], y, core, axis)]

\* the fault of each data variable, by name
Faults(func, d, y, core, axis) ==
    [n \in SeqSet(DataVars(d)) |->
        CHOOSE f \in {UfuncFault(func, v, y, core, axis) : v \in {d.variables[n]}} : TRUE]

\* the first data variable whose result does not fit, if any
FirstFault(faults, names) ==
    LET bad == {k \in 1..Len(names) : faults[names[k]] # NoFault}
    IN  IF bad = {} THEN NoFault
        ELSE faults[names[CHOOSE k \in bad : \A j \in bad : k <= j]]

DatasetFault(func, d, y, core, axis) ==
    CHOOSE f \in {FirstFault(faults, DataVars(d)) :
                    faults \in {Faults(func, d, y, core, axis)}} : TRUE

\* what a cell calling xr.apply_ufunc(func, ds, ...) shows
ApplyShown(func, d, y, core, axis) ==
    CHOOSE o \in {IF f = NoFault
                  THEN Shown(ApplyUfuncDataset(func, d, y, core, axis))
                  ELSE [kind |-> "error", val |-> "ValueError", why |-> f] :
                  f \in {DatasetFault(func, d, y, core, axis)}} : TRUE

\* ds = xr.tutorial.load_dataset("air_temperature"); ds
NumpyLoadCell ==
    /\ AtUfuncCell("load")
    /\ ds' = OpenDataset(file)
    /\ out' = Shown(ds')
    /\ pc' = "numpy_result"
    /\ UNCHANGED <<nb, file, iceVars, daskVars, ioVars, laterVars>>

\* numpy_result = squared_error(ds.air.data, 1); numpy_result
NumpyResultCell ==
    /\ AtUfuncCell("numpy_result")
    /\ numpy_result' = NpSquaredError(ArrOf(GetItem(ds, "air")), 1)
    /\ out' = Shown(numpy_result')
    /\ pc' = "by_hand"
    /\ UNCHANGED <<nb, file, ds, iceVars, daskVars, ioVars, compVars, areaVars>>

\* xr.DataArray(data=numpy_result, dims=ds.air.dims, coords=ds.air.coords)
ByHandCell ==
    /\ AtUfuncCell("by_hand")
    /\ LET air == GetItem(ds, "air")
       IN  out' = Shown(DataArray(PyNone,
                    Var(air.dims, numpy_result.shape, numpy_result.data, NoAttrs),
                    air.coords))
    /\ pc' = "copy"
    /\ UNCHANGED <<nb, file, ds, iceVars, daskVars, ioVars, laterVars>>

\* ds.air.copy(data=numpy_result)
CopyCell ==
    /\ AtUfuncCell("copy")
    /\ out' = Shown([GetItem(ds, "air") EXCEPT !.data = numpy_result.data])
    /\ pc' = "apply"
    /\ UNCHANGED <<nb, file, ds, iceVars, daskVars, ioVars, laterVars>>

\* xr.apply_ufunc(squared_error, ds.air, 1)
ApplyCell ==
    /\ AtUfuncCell("apply")
    /\ out' = Shown(ApplyUfunc("squared_error", GetItem(ds, "air"), 1, <<>>, 0 - 1))
    /\ pc' = "wrapper"
    /\ UNCHANGED <<nb, file, ds, iceVars, daskVars, ioVars, laterVars>>

\* def wrapper(x, y): ...; xr.apply_ufunc(wrapper, ds.air, 1)
NumpyWrapperCell ==
    /\ AtUfuncCell("wrapper")
    /\ calls' = Append(calls, Received("wrapper", VarOf(GetItem(ds, "air")), 1, <<>>, 0 - 1))
    /\ out' = Shown(ApplyUfunc("wrapper", GetItem(ds, "air"), 1, <<>>, 0 - 1))
    /\ pc' = "wrapper_ds"
    /\ UNCHANGED <<nb, file, ds, iceVars, env, clientVars, tasks, resultVars, ioVars,
                   laterVars>>

\* xr.apply_ufunc(wrapper, ds, 1)
WrapperDatasetCell ==
    /\ AtUfuncCell("wrapper_ds")
    /\ calls' = calls \o ReceivedAll("wrapper", ds, 1, <<>>, 0 - 1)
    /\ out' = ApplyShown("wrapper", ds, 1, <<>>, 0 - 1)
    /\ pc' = "apply_ds"
    /\ UNCHANGED <<nb, file, ds, iceVars, env, clientVars, tasks, resultVars, ioVars,
                   laterVars>>

\* xr.apply_ufunc(squared_error, ds, 1)
ApplyDatasetCell ==
    /\ AtUfuncCell("apply_ds")
    /\ out' = ApplyShown("squared_error", ds, 1, <<>>, 0 - 1)
    /\ pc' = "dims"
    /\ UNCHANGED <<nb, file, ds, iceVars, daskVars, ioVars, laterVars>>

\* ds.air.dims
DimsCell ==
    /\ AtUfuncCell("dims")
    /\ out' = Shown(GetItem(ds, "air").dims)
    /\ pc' = "mean_array"
    /\ UNCHANGED <<nb, file, ds, iceVars, daskVars, ioVars, laterVars>>

\* da.get_axis_num(d), counted from 0
GetAxisNum(da, d) == AxisOf(da.dims, d) - 1

\* np.mean(ds.air, axis=ds.air.get_axis_num("time"))
MeanArrayCell ==
    /\ AtUfuncCell("mean_array")
    /\ LET air == GetItem(ds, "air")
       IN  out' = Shown(Mean(air, air.dims[Pos(GetAxisNum(air, "time"))]))
    /\ pc' = "mean_data"
    /\ UNCHANGED <<nb, file, ds, iceVars, daskVars, ioVars, laterVars>>

\* np.mean(ds.air.data, axis=0)
MeanDataCell ==
    /\ AtUfuncCell("mean_data")
    /\ out' = Shown(NpMean(ArrOf(GetItem(ds, "air")), Pos(0)))
    /\ pc' = "mean_axis0"
    /\ UNCHANGED <<nb, file, ds, iceVars, daskVars, ioVars, laterVars>>

\* xr.apply_ufunc(np.mean, ds, kwargs={"axis": 0})   (tagged raises-exception)
MeanAxis0Cell ==
    /\ AtUfuncCell("mean_axis0")
    /\ out' = ApplyShown("np.mean", ds, 0, <<>>, 0)
    /\ pc' = "core_axis0"
    /\ UNCHANGED <<nb, file, ds, iceVars, daskVars, ioVars, laterVars>>

\* xr.apply_ufunc(np.mean, ds, input_core_dims=[["time"]], kwargs={"axis": 0})
\* (tagged raises-exception)
CoreAxis0Cell ==
    /\ AtUfuncCell("core_axis0")
    /\ out' = ApplyShown("np.mean", ds, 0, <<"time">>, 0)
    /\ pc' = "wrapper_axis0"
    /\ UNCHANGED <<nb, file, ds, iceVars, daskVars, ioVars, laterVars>>

\* def wrapper(array, **kwargs): ...
\* xr.apply_ufunc(wrapper, ds, input_core_dims=[["time"]], kwargs={"axis": 0})
\* (tagged raises-exception)
WrapperAxis0Cell ==
    /\ AtUfuncCell("wrapper_axis0")
    /\ calls' = calls \o ReceivedAll("mean_wrapper", ds, 0, <<"time">>, 0)
    /\ out' = ApplyShown("mean_wrapper", ds, 0, <<"time">>, 0)
    /\ pc' = "axis_num"
    /\ UNCHANGED <<nb, file, ds, iceVars, env, clientVars, tasks, resultVars, ioVars,
                   laterVars>>

\* ds.air.get_axis_num("time")
AxisNumCell ==
    /\ AtUfuncCell("axis_num")
    /\ out' = Shown(GetAxisNum(GetItem(ds, "air"), "time"))
    /\ pc' = "wrapper_last"
    /\ UNCHANGED <<nb, file, ds, iceVars, daskVars, ioVars, laterVars>>

\* xr.apply_ufunc(wrapper, ds, input_core_dims=[["time"]], kwargs={"axis": -1})
WrapperLastCell ==
    /\ AtUfuncCell("wrapper_last")
    /\ calls' = calls \o ReceivedAll("mean_wrapper", ds, 0, <<"time">>, 0 - 1)
    /\ out' = ApplyShown("mean_wrapper", ds, 0, <<"time">>, 0 - 1)
    /\ pc' = "trapz"
    /\ UNCHANGED <<nb, file, ds, iceVars, env, clientVars, tasks, resultVars, ioVars,
                   laterVars>>

\* xr.apply_ufunc(scipy.integrate.trapz, ds, input_core_dims=[["time"]],
\*     kwargs={"axis": -1})
NumpyTrapzCell ==
    /\ AtUfuncCell("trapz")
    /\ out' = ApplyShown("trapz", ds, 0, <<"time">>, 0 - 1)
    /\ pc' = "done"
    /\ UNCHANGED <<nb, file, ds, iceVars, daskVars, ioVars, laterVars>>

NextNumpyUfunc ==
    \/ NumpyLoadCell \/ NumpyResultCell \/ ByHandCell \/ CopyCell \/ ApplyCell
    \/ NumpyWrapperCell \/ WrapperDatasetCell \/ ApplyDatasetCell \/ DimsCell
    \/ MeanArrayCell \/ MeanDataCell \/ MeanAxis0Cell \/ CoreAxis0Cell
    \/ WrapperAxis0Cell \/ AxisNumCell \/ WrapperLastCell \/ NumpyTrapzCell

SpecNumpyUfunc == InitNumpyUfunc /\ [][NextNumpyUfunc]_vars

-----------------------------------------------------------------------------
(* Claims about the dask notebooks *)

\* the values of `air` as xarray decodes them from the file
DecodedAir == OpenDataset(file).variables["air"]

\* the mean over time at one grid point, from the file's values
TimeMeanAt(la, lo) ==
    SumSeq([t \in 1..DecodedAir.shape[1] |-> DecodedAir.data[<<t, la, lo>>]])
        \div DecodedAir.shape[1]

\* the mean over lat at one time and longitude, from the file's values
LatMeanAt(t, lo) ==
    SumSeq([la \in 1..DecodedAir.shape[2] |-> DecodedAir.data[<<t, la, lo>>]])
        \div DecodedAir.shape[2]

\* C5: in xarray_and_dask, mean.compute() returns a new object holding
\* numpy values (the time means) and leaves `mean` dask-backed; mean.load()
\* replaces the dask array inside `mean`, which is numpy-backed from then on
\* and holds the same values.
C5_ComputeVsLoad ==
    nb = "xarray_and_dask" =>
        /\ pc \in {"show_mean", "load"} =>
              /\ IsDask(mean)
              /\ mean = Mean(GetItem(ds, "air"), "time")
              /\ ~IsDask(computed)
              /\ computed.dims = <<"lat", "lon">>
              /\ computed.shape = <<NLat, NLon>>
              /\ \A i \in Idx(computed.shape) : computed.data[i] = TimeMeanAt(i[1], i[2])
        /\ pc \in {"show_loaded", "close", "done"} =>
              /\ ~IsDask(mean)
              /\ mean = computed

C5_Witness ==
    /\ nb = "xarray_and_dask" /\ pc = "show_loaded"
    /\ ~IsDask(mean) /\ ~IsDask(computed)
    /\ Len(tasks) = 3 /\ tasks[2].what = "compute" /\ tasks[3].what = "load"

C7_ClientLifetime ==
    nb \in ClientNotebooks =>
        /\ \A k \in 1..Len(tasks) : tasks[k].client = "open"
        /\ closes <= 1
        /\ client = "none" => tasks = <<>> /\ closes = 0
        /\ client = "open" => closes = 0
        /\ client = "closed" => pc = "done" /\ closes = 1
        /\ pc = "done" => client = "closed"

C7_Witness ==
    /\ nb \in ClientNotebooks /\ pc = "done"
    /\ client = "closed" /\ closes = 1
    /\ Len(tasks) >= 2

\* C8: in simple_dask_apply_ufunc, time_mean(ds.air) is identical to
\* ds.air.mean("time"): same name, dimensions, coordinates, attrs and values
\* (the time means), and the notebook's comparison shows True.
C8_TimeMeanIdentical ==
    nb = "simple_dask_apply_ufunc" /\ pc \notin {"client", "ones", "open", "error"} =>
        LET air == GetItem(ds, "air")
            tm == Compute(time_mean(air))
        IN  /\ IsDask(time_mean(air))
            /\ IdenticalArrays(Mean(air, "time"), time_mean(air))
            /\ tm.name = "air" /\ tm.dims = <<"lat", "lon">> /\ tm.shape = <<NLat, NLon>>
            /\ \A i \in Idx(tm.shape) : tm.data[i] = TimeMeanAt(i[1], i[2])
            /\ pc = "trapz" => IsTrue(out)

C8_Witness ==
    /\ nb = "simple_dask_apply_ufunc" /\ pc = "trapz" /\ IsTrue(out)
    /\ Len(ChunksOf(ds)["time"]) > 1

\* C9: in the map_blocks notebook the dataset is chunked along time;
\* ds.map_blocks(time_mean) is lazy when built (time_mean has only seen the
\* 0-shaped object, nothing was computed); once computed, time_mean has run
\* on every block, and the result is identical to ds.mean("lat").
C9_MapBlocks ==
    nb = "map_blocks" /\ pc \in {"map_blocks", "identical_blocks", "close", "done"} =>
        LET nt == DimSize(ds, "time")
            mb == ComputeDataset(MapBlocks("time_mean", ds))
        IN  /\ ChunksOf(ds) = ("time" :> ChunkSizes(nt, ChunkTime)
                                 @@ "lat" :> <<NLat>> @@ "lon" :> <<NLon>>)
            /\ IdenticalDatasets(MapBlocks("time_mean", ds), MeanDataset(ds, "lat"))
            /\ mb.variables["air"].dims = <<"time", "lon">>
            /\ \A i \in Idx(<<nt, NLon>>) : mb.variables["air"].data[i] = LatMeanAt(i[1], i[2])
            /\ pc = "identical_blocks" =>
                  /\ out.kind = "object" /\ IsDask(out.val.variables["air"])
                  /\ Len(tasks) = 1
                  /\ calls = <<[func |-> "time_mean", backing |-> "numpy", shape |-> <<0, 0, 0>>]>>
            /\ pc = "close" =>
                  /\ IsTrue(out)
                  /\ Len(tasks) = 2 /\ tasks[2].what = "identical"
                  /\ Len(calls) = 2 + Len(ChunkSizes(nt, ChunkTime))
                  /\ \A k \in 1..Len(ChunkSizes(nt, ChunkTime)) :
                        calls[2 + k].shape = <<ChunkSizes(nt, ChunkTime)[k], NLat, NLon>>

C9_Witness ==
    /\ nb = "map_blocks" /\ pc = "close" /\ IsTrue(out)
    /\ Len(ChunksOf(ds)["time"]) > 1
    /\ Len(calls) > 3

-----------------------------------------------------------------------------
(* Claims about "Xarray in 45 minutes" *)

\* C10: the dataset read back from the file written by ds.to_netcdf is
\* identical to ds: the same variables, coordinates, values and attributes,
\* among them the attribute who_is_awesome set on ds.air before writing;
\* the notebook's comparison shows True.
C10_RoundTrip ==
    nb = "xarray_in_45_minutes" =>
        /\ pc \in {"identical", "done"} =>
              /\ DatasetIdentical(ds, fromdisk)
              /\ "who_is_awesome" \in DOMAIN fromdisk.variables["air"].attrs
              /\ fromdisk.variables["air"].attrs["who_is_awesome"] = "xarray"
              /\ fromdisk.variables["air"].data = DecodedAir.data
              /\ disk.variables["air"].data = file.variables["air"].data
        /\ pc = "done" => IsTrue(out)

C10_Witness ==
    /\ nb = "xarray_in_45_minutes" /\ pc = "done" /\ IsTrue(out)
    /\ "scale_factor" \in DOMAIN disk.variables["air"].attrs
    /\ fromdisk.variables["air"].data # disk.variables["air"].data

-----------------------------------------------------------------------------
(* Claims about arithmetic between labelled arrays *)

\* the two notebooks that do arithmetic between arrays with different labels
InitArithmetic == InitCompute \/ InitIO

NextArithmetic == NextCompute \/ NextIO

SpecArithmetic == InitArithmetic /\ [][NextArithmetic]_vars

\* the labels of dimension d of da
LabelsOf(da, d) == Labels(da.coords[d])

\* the labels are exactly those of both la and lb, each once
IsIntersection(labels, la, lb) ==
    /\ SeqSet(labels) = SeqSet(la) \cap SeqSet(lb)
    /\ Cardinality(SeqSet(labels)) = Len(labels)

\* the element of a (space, time) array at the labels s and t
At2(da, s, t) ==
    da.data[<<IndexOf(LabelsOf(da, "space"), s), IndexOf(LabelsOf(da, "time"), t)>>]

\* the element of a 1-D array along d at the label l
At1(da, d, l) == da.data[<<IndexOf(LabelsOf(da, d), l)>>]

\* C11: arithmetic between two labelled arrays aligns them with an inner
\* join. arr1 - arr2 (arr2 along space only) has the space labels both
\* arrays have and all of arr1's time labels, and each element is arr1's
\* minus arr2's at the same space label; xr.align(arr1, arr2, join="inner")
\* keeps, in each dimension, exactly the labels both have; and
\* cell_area_bad * ds.air.isel(time=1), whose latitudes all differ, is empty
\* along lat.
C11_InnerJoin ==
    /\ AtCell("arrays") =>
          /\ out.val.dims = <<"space", "time">>
          /\ IsIntersection(LabelsOf(out.val, "space"), SpaceLabels, given.space)
          /\ LabelsOf(out.val, "time") = TimeLabels
          /\ out.val.shape = <<Len(LabelsOf(out.val, "space")), NTime>>
          /\ \A i \in Idx(out.val.shape) :
                LET s == LabelsOf(out.val, "space")[i[1]]
                    t == TimeLabels[i[2]]
                IN  out.val.data[i] = At2(arr1, s, t) - At1(arr2, "space", s)
    /\ AtCell("show_a2") =>
          /\ \A d \in {"space", "time"} :
                /\ IsIntersection(LabelsOf(a1_aligned, d), LabelsOf(arr1, d), LabelsOf(arr2, d))
                /\ LabelsOf(a2_aligned, d) = LabelsOf(a1_aligned, d)
          /\ a1_aligned.shape = <<Len(LabelsOf(a1_aligned, "space")), Len(LabelsOf(a1_aligned, "time"))>>
          /\ a2_aligned.shape = a1_aligned.shape
          /\ \A i \in Idx(a1_aligned.shape) :
                LET s == LabelsOf(a1_aligned, "space")[i[1]]
                    t == LabelsOf(a1_aligned, "time")[i[2]]
                IN  /\ a1_aligned.data[i] = At2(arr1, s, t)
                    /\ a2_aligned.data[i] = At2(arr2, s, t)
          /\ (SeqSet(given.time) \cap SeqSet(TimeLabels) = {} => a1_aligned.shape[2] = 0)
    /\ (nb = "xarray_in_45_minutes" /\ pc = "show_ds") =>
          /\ out.val.dims = <<"lat", "lon">>
          /\ out.val.shape = <<0, NLon>>
          /\ LabelsOf(out.val, "lat") = <<>>
          /\ LabelsOf(out.val, "lon") = LabelsOf(GetItem(ds, "air"), "lon")

\* the notebook's own arrays: arr1 - arr2 has space = ["b"] and all of time
C11_Witness ==
    /\ AtCell("arrays")
    /\ given.space = <<"b", "d">>
    /\ LabelsOf(out.val, "space") = <<"b">>
    /\ LabelsOf(out.val, "time") = TimeLabels
    /\ out.val.data[<<1, NTime>>] = (2 * NTime - 1) - 0

\* C12: xr.align(arr1, arr2, join="exact") raises whenever the labels of
\* arr1 and arr2 differ in some dimension, and then the cell shows an error
\* and no arrays; when the labels are the same it returns both arrays as
\* they are.
C12_ExactRaises ==
    AtCell("set_options") =>
        IF \E d \in {"space", "time"} : LabelsOf(arr1, d) # LabelsOf(arr2, d)
        THEN out = [kind |-> "error", val |-> "ValueError"]
        ELSE out = Shown(<<arr1, arr2>>)

\* the notebook's own arrays: the labels differ and the cell has raised
C12_Witness ==
    /\ AtCell("set_options")
    /\ LabelsOf(arr2, "space") = <<"b", "d">>
    /\ LabelsOf(arr2, "time") # LabelsOf(arr1, "time")
    /\ out.kind = "error"

\* the labels are those of la or lb, each once, in ascending order
IsSortedUnion(labels, la, lb, d) ==
    /\ SeqSet(labels) = SeqSet(la) \cup SeqSet(lb)
    /\ \A j, k \in 1..Len(labels) : j < k => SortKey(d, labels[j]) < SortKey(d, labels[k])

\* da has an element at the labels s and t
Covers(da, s, t) == Has(LabelsOf(da, "space"), s) /\ Has(LabelsOf(da, "time"), t)

\* the cells of the with block, once the options object is made
InsideWith == {"with_body", "with_exit"}

\* C13: inside `with xr.set_options(arithmetic_join="outer")` the option is
\* "outer" and arr1 - arr2 has, in each dimension, the union of the labels
\* of both, holding the difference where both arrays have the labels and
\* NaN elsewhere; before the block and once it has exited the option is
\* the default "inner".
C13_OuterInsideWith ==
    nb = "computing_with_multiple_objects" =>
        /\ pc = "with_body" => OPTIONS.arithmetic_join = "outer"
        /\ pc \notin InsideWith => OPTIONS.arithmetic_join = "inner"
        /\ pc \in {"with_exit", "result", "done"} =>
              /\ result.dims = <<"space", "time">>
              /\ \A d \in {"space", "time"} :
                    IsSortedUnion(LabelsOf(result, d), LabelsOf(arr1, d), LabelsOf(arr2, d), d)
              /\ result.shape = <<Len(LabelsOf(result, "space")), Len(LabelsOf(result, "time"))>>
              /\ \A i \in Idx(result.shape) :
                    LET s == LabelsOf(result, "space")[i[1]]
                        t == LabelsOf(result, "time")[i[2]]
                    IN  result.data[i] =
                            IF Covers(arr1, s, t) /\ Covers(arr2, s, t)
                            THEN At2(arr1, s, t) - At2(arr2, s, t) ELSE NaN

\* the notebook's own arrays after the block: the result spans a..d and
\* -2..4 with NaN where arr2 has no value, and the option is "inner" again
C13_Witness ==
    /\ AtCell("done")
    /\ LabelsOf(arr2, "space") = <<"b", "d">>
    /\ LabelsOf(result, "space") = <<"a", "b", "c", "d">>
    /\ LabelsOf(result, "time")[1] = 0 - 2
    /\ IsNaN(result.data[<<1, 1>>])
    /\ ~IsNaN(result.data[<<2, 3>>])
    /\ OPTIONS.arithmetic_join = "inner"
    /\ old_options.arithmetic_join = "inner"

\* x is array1 minus array2 over (space, time): element (s, t) is array1's
\* s-th value minus array2's t-th, under the labels of both, with no name
IsOuterDifference(x) ==
    /\ x.dims = <<"space", "time">>
    /\ x.shape = <<NSpace, NTime>>
    /\ \A i \in Idx(x.shape) : x.data[i] = array1.data[<<i[1]>>] - array2.data[<<i[2]>>]
    /\ DOMAIN x.coords = {"space", "time"}
    /\ LabelsOf(x, "space") = SpaceLabels
    /\ LabelsOf(x, "time") = TimeLabels
    /\ x.name = PyNone

\* C14: array1 - array2 (array1 along space, array2 along time) is a 2-D
\* array over (space, time); xr.broadcast gives both arrays those two
\* dimensions, and the difference of the broadcast arrays is the same
\* object as array1 - array2 (values, labels, name, attributes); array1.data - array2.data, of shapes (NSpace,) and
\* (NTime,), raises.
C14_BroadcastByName ==
    /\ AtCell("broadcast") => IsOuterDifference(out.val)
    /\ AtCell("subtract_broadcasted") =>
          /\ array1_broadcasted.dims = <<"space", "time">>
          /\ array2_broadcasted.dims = <<"space", "time">>
          /\ array1_broadcasted.shape = <<NSpace, NTime>>
          /\ array2_broadcasted.shape = <<NSpace, NTime>>
          /\ \A i \in Idx(<<NSpace, NTime>>) :
                /\ array1_broadcasted.data[i] = array1.data[<<i[1]>>]
                /\ array2_broadcasted.data[i] = array2.data[<<i[2]>>]
    /\ AtCell("numpy") =>
          /\ IsOuterDifference(out.val)
          /\ out.val = BinaryOp("sub", array1, array2, OPTIONS.arithmetic_join)
    /\ AtCell("newaxis") =>
          /\ DataOf(array1).shape = <<NSpace>>
          /\ DataOf(array2).shape = <<NTime>>
          /\ out = [kind |-> "error", val |-> "ValueError"]

\* the numpy subtraction has raised, after the two labelled subtractions
C14_Witness ==
    /\ AtCell("newaxis")
    /\ out.kind = "error"
    /\ array1_broadcasted.shape = <<NSpace, NTime>>
    /\ array1.shape = <<NSpace>>
    /\ array2.shape = <<NTime>>

-----------------------------------------------------------------------------
(* Claims about apply_ufunc on numpy data *)

\* `air` as the notebook loaded it
LoadedAir == ds.variables["air"]

\* how many time steps the file holds
TimeSteps == LoadedAir.shape[AxisOf(LoadedAir.dims, "time")]

\* the last call the wrapper printed
LastCall == calls[Len(calls)]

\* the orders in which three dimensions can be laid out
Orders == {p \in [1..3 -> 1..3] : \A j, k \in 1..3 : p[j] = p[k] => j = k}

\* air with its dimensions in the order p: axis k is air's axis p[k]
Reordered(p) ==
    LET shp == [k \in 1..3 |-> LoadedAir.shape[p[k]]]
    IN  Var([k \in 1..3 |-> LoadedAir.dims[p[k]]], shp,
            Stored([i \in Idx(shp) |->
                LoadedAir.data[[m \in 1..3 |-> i[CHOOSE k \in 1..3 : p[k] = m]]]]),
            LoadedAir.attrs)

\* x holds air's values under the dimensions xdims: the element at an
\* index is air's element at the same place along each named dimension
HoldsAir(x, xdims) ==
    /\ x.shape = [k \in 1..3 |-> SizeOf(LoadedAir, xdims[k])]
    /\ \A i \in Idx(x.shape) :
          x.data[i] = LoadedAir.data[[m \in 1..3 |-> i[IndexOf(xdims, LoadedAir.dims[m])]]]

\* the mean over time at one grid point, from the loaded values
MeanOverTime(la, lo) == MeanOf([t \in 1..TimeSteps |-> LoadedAir.data[<<t, la, lo>>]])

\* C15: with input_core_dims=[["time"]] the applied function receives air
\* with time as its last axis, shape (lat, lon, time), holding air's values
\* under those dimensions, and so it does wherever time stands in the
\* input; with axis=-1 the call succeeds and its result over (lat, lon) is
\* the mean over time.
C15_CoreDimsLast ==
    /\ (AtUfuncCell("axis_num") \/ AtUfuncCell("trapz")) =>
          /\ LoadedAir.dims = <<"time", "lat", "lon">>
          /\ LastCall.received.shape = <<NLat, NLon, TimeSteps>>
          /\ HoldsAir(LastCall.received, <<"lat", "lon", "time">>)
    /\ AtUfuncCell("trapz") =>
          /\ LastCall.axis = 0 - 1
          /\ LastCall.result_shape = <<NLat, NLon>>
          /\ out.kind = "object"
          /\ out.val.variables["air"].dims = <<"lat", "lon">>
          /\ out.val.variables["air"].shape = <<NLat, NLon>>
          /\ \A i \in Idx(<<NLat, NLon>>) :
                out.val.variables["air"].data[i] = MeanOverTime(i[1], i[2])
          /\ \A p \in Orders :
                LET v == Reordered(p)
                    rest == SelectSeq(v.dims, LAMBDA d : d # "time")
                    x == BareTranspose(Bare(v), CoreLast(v.dims, <<"time">>))
                IN  /\ HoldsAir(x, rest \o <<"time">>)
                    /\ x.shape[3] = TimeSteps
                    /\ ApplyUfuncVar("np.mean", v, 0, <<"time">>, 0 - 1).dims = rest
                    /\ FaultIn(ApplyUfuncVar("np.mean", v, 0, <<"time">>, 0 - 1), v) = NoFault

\* the call with axis=-1 has run: the wrapper saw time last and the cell
\* shows a dataset
C15_Witness ==
    /\ AtUfuncCell("trapz")
    /\ out.kind = "object"
    /\ LastCall.received.shape = <<NLat, NLon, TimeSteps>>
    /\ LastCall.axis = 0 - 1
    /\ GetAxisNum(GetItem(ds, "air"), "time") = 0

\* C16: apply_ufunc raises when the function changes the dimensions in a
\* way that was not declared: np.mean with axis=0 and no core dimension
\* returns 2 axes where the 3 dimensions (time, lat, lon) are expected;
\* with input_core_dims=[["time"]] and axis=0 it averages over lat, and the
\* size of lat changes from that of lat to that of lon.
C16_UndeclaredChange ==
    /\ AtUfuncCell("core_axis0") =>
          out = [kind |-> "error", val |-> "ValueError",
                 why |-> [why |-> "number of dimensions", received |-> 2,
                          expected |-> 3, names |-> <<"time", "lat", "lon">>]]
    /\ (AtUfuncCell("wrapper_axis0") \/ AtUfuncCell("axis_num")) =>
          out = [kind |-> "error", val |-> "ValueError",
                 why |-> [why |-> "size of dimension", dim |-> "lat",
                          from |-> NLat, to |-> NLon]]
    /\ AtUfuncCell("axis_num") =>
          /\ LastCall.axis = 0
          /\ LastCall.result_shape = <<NLon, TimeSteps>>

\* the second failing call has raised over the size of lat
C16_Witness ==
    /\ AtUfuncCell("wrapper_axis0")
    /\ out.kind = "error"
    /\ out.why.why = "size of dimension"
    /\ out.why.dim = "lat"
    /\ NLat # NLon

====
